---- MODULE Spec2Model ----
(***************************************************************************)
(* Model of the idea-kill-switch validation pipeline: the Streamlit        *)
(* session state machine of app.py and the stage modules it drives         *)
(* (pain research, market analysis, content generation, survey analysis).  *)
(*                                                                         *)
(* Python dicts are functions with a set of string keys as domain; the     *)
(* empty dict is <<>>.  Strings the code formats are built with \o and     *)
(* ToString.  Money is counted in units of $0.0001.                        *)
(***************************************************************************)
EXTENDS Integers, Sequences, FiniteSets, TLC

VARIABLES validation_stage, results, problem_description, target_audience,
          api_costs, use_deep_analysis, session_keys, call

vars == <<validation_stage, results, problem_description, target_audience,
          api_costs, use_deep_analysis, session_keys, call>>

session_vars == <<validation_stage, results, problem_description, target_audience,
                  api_costs, use_deep_analysis, session_keys>>

(***************************************************************************)
(* Bounds of the model.                                                    *)
(***************************************************************************)
MaxCompetitors == 3

MaxCost == 800

MaxMentions == 2

MaxGrown == 6

(***************************************************************************)
(* dict helpers                                                            *)
(***************************************************************************)
EmptyDict == <<>>

Has(d, k) == k \in DOMAIN d

Get(d, k, default) == IF k \in DOMAIN d THEN d[k] ELSE default

Update(d, e) ==
    [k \in DOMAIN d \cup DOMAIN e |-> IF k \in DOMAIN e THEN e[k] ELSE d[k]]

Put(d, k, v) == Update(d, [x \in {k} |-> v])

Min(a, b) == IF a <= b THEN a ELSE b

Max(a, b) == IF a >= b THEN a ELSE b

RECURSIVE Join(_, _)
Join(strs, sep) ==
    IF strs = <<>> THEN ""
    ELSE IF Len(strs) = 1 THEN strs[1]
    ELSE strs[1] \o sep \o Join(Tail(strs), sep)

(***************************************************************************)
(* config/settings.py                                                      *)
(***************************************************************************)
EASY_COMPLAINTS_REQUIRED == 20

EASY_PAIN_SCORE == 5

MEDIUM_COMPLAINTS_REQUIRED == 40

MEDIUM_PAIN_SCORE == 6

DIFFICULT_COMPLAINTS_REQUIRED == 60

DIFFICULT_PAIN_SCORE == 8

DIFFICULT_URGENCY_THRESHOLD == 40

DIFFICULT_EMOTIONAL_THRESHOLD == 30

MIN_COMPETITOR_PRICE == 50

MAX_DISPLAY_COMPLAINTS == 20

(***************************************************************************)
(* PainResearchModule._evaluate_thresholds                                 *)
(***************************************************************************)
\* The two numeric gates every level starts with (lines 440, 453, 471-472);
\* the minimums are the settings names the module imported.
NumericGatesMutant(weighted_score, pain_score, complaints_required, pain_score_required) ==
    weighted_score <= complaints_required /\ pain_score >= pain_score_required

NumericGates(weighted_score, pain_score, complaints_required, pain_score_required) ==
    weighted_score >= complaints_required /\ pain_score >= pain_score_required

EasyPassedMutant(weighted_score, pain_score) ==
    weighted_score >= EASY_COMPLAINTS_REQUIRED \/ pain_score >= EASY_PAIN_SCORE

EasyPassed(weighted_score, pain_score) ==
    NumericGates(weighted_score, pain_score, EASY_COMPLAINTS_REQUIRED, EASY_PAIN_SCORE)

EasyReasonsMutant(weighted_score, pain_score) ==
    IF weighted_score < EASY_COMPLAINTS_REQUIRED
    THEN <<"Weighted complaints: " \o ToString(weighted_score) \o "/"
           \o ToString(EASY_COMPLAINTS_REQUIRED)>>
    ELSE <<>>

EasyReasons(weighted_score, pain_score) ==
    (IF weighted_score < EASY_COMPLAINTS_REQUIRED
     THEN <<"Weighted complaints: " \o ToString(weighted_score) \o "/"
            \o ToString(EASY_COMPLAINTS_REQUIRED)>>
     ELSE <<>>)
    \o (IF pain_score < EASY_PAIN_SCORE
        THEN <<"Pain score: " \o ToString(pain_score) \o "/" \o ToString(EASY_PAIN_SCORE)>>
        ELSE <<>>)

QualityOkMutant(quality_rating) == quality_rating = "medium"

QualityOk(quality_rating) == quality_rating \in {"medium", "high"}

MediumPassed(weighted_score, pain_score, quality_rating) ==
    /\ NumericGates(weighted_score, pain_score,
                    MEDIUM_COMPLAINTS_REQUIRED, MEDIUM_PAIN_SCORE)
    /\ QualityOk(quality_rating)

MediumReasonsMutant(weighted_score, pain_score, quality_rating) ==
    (IF pain_score < MEDIUM_PAIN_SCORE
     THEN <<"Pain score: " \o ToString(pain_score) \o "/" \o ToString(MEDIUM_PAIN_SCORE)>>
     ELSE <<>>)
    \o (IF weighted_score < MEDIUM_COMPLAINTS_REQUIRED
        THEN <<"Weighted complaints: " \o ToString(weighted_score) \o "/"
               \o ToString(MEDIUM_COMPLAINTS_REQUIRED)>>
        ELSE <<>>)
    \o (IF ~QualityOk(quality_rating)
        THEN <<"Quality: " \o quality_rating \o " (need medium+)">>
        ELSE <<>>)

MediumReasons(weighted_score, pain_score, quality_rating) ==
    (IF weighted_score < MEDIUM_COMPLAINTS_REQUIRED
     THEN <<"Weighted complaints: " \o ToString(weighted_score) \o "/"
            \o ToString(MEDIUM_COMPLAINTS_REQUIRED)>>
     ELSE <<>>)
    \o (IF pain_score < MEDIUM_PAIN_SCORE
        THEN <<"Pain score: " \o ToString(pain_score) \o "/" \o ToString(MEDIUM_PAIN_SCORE)>>
        ELSE <<>>)
    \o (IF ~QualityOk(quality_rating)
        THEN <<"Quality: " \o quality_rating \o " (need medium+)">>
        ELSE <<>>)

DifficultPassed(weighted_score, pain_score, quality_rating, urgency, emotional) ==
    /\ NumericGates(weighted_score, pain_score,
                    DIFFICULT_COMPLAINTS_REQUIRED, DIFFICULT_PAIN_SCORE)
    /\ urgency >= DIFFICULT_URGENCY_THRESHOLD
    /\ emotional >= DIFFICULT_EMOTIONAL_THRESHOLD
    /\ quality_rating = "high"

DifficultReasons(weighted_score, pain_score, quality_rating, urgency, emotional) ==
    (IF weighted_score < DIFFICULT_COMPLAINTS_REQUIRED
     THEN <<"Weighted complaints: " \o ToString(weighted_score) \o "/"
            \o ToString(DIFFICULT_COMPLAINTS_REQUIRED)>>
     ELSE <<>>)
    \o (IF pain_score < DIFFICULT_PAIN_SCORE
        THEN <<"Pain score: " \o ToString(pain_score) \o "/"
               \o ToString(DIFFICULT_PAIN_SCORE)>>
        ELSE <<>>)
    \o (IF ~(urgency >= DIFFICULT_URGENCY_THRESHOLD)
        THEN <<"Urgency: " \o ToString(urgency) \o "%/"
               \o ToString(DIFFICULT_URGENCY_THRESHOLD) \o "%">>
        ELSE <<>>)
    \o (IF ~(emotional >= DIFFICULT_EMOTIONAL_THRESHOLD)
        THEN <<"Emotional: " \o ToString(emotional) \o "%/"
               \o ToString(DIFFICULT_EMOTIONAL_THRESHOLD) \o "%">>
        ELSE <<>>)
    \o (IF quality_rating # "high"
        THEN <<"Quality: " \o quality_rating \o " (need high)">>
        ELSE <<>>)

\* quality_metrics.get("quality_rating", "low"), line 451
QualityRatingMutant(quality_metrics) == Get(quality_metrics, "quality_rating", "medium")

QualityRating(quality_metrics) == Get(quality_metrics, "quality_rating", "low")

evaluate_thresholds(res) ==
    LET weighted_score  == Get(res, "weighted_complaint_score", 0)
        pain_score      == Get(res, "pain_score", 0)
        quality_metrics == Get(res, "quality_metrics", EmptyDict)
        quality_rating  == QualityRating(quality_metrics)
        urgency         == Get(quality_metrics, "urgency_percentage", 0)
        emotional       == Get(quality_metrics, "emotional_intensity_percentage", 0)
        easy_ok == EasyPassed(weighted_score, pain_score)
        med_ok  == MediumPassed(weighted_score, pain_score, quality_rating)
        diff_ok == DifficultPassed(weighted_score, pain_score, quality_rating,
                                   urgency, emotional)
    IN  [easy |->
            [name |-> "Easy (Market Exists)",
             passed |-> easy_ok,
             reason |-> IF easy_ok THEN ""
                        ELSE Join(EasyReasons(weighted_score, pain_score), " | "),
             criteria |-> [complaints_required |-> EASY_COMPLAINTS_REQUIRED,
                           pain_score_required |-> EASY_PAIN_SCORE,
                           actual_complaints |-> weighted_score,
                           actual_pain_score |-> pain_score]],
         medium |->
            [name |-> "Medium (Strong Opportunity)",
             passed |-> med_ok,
             reason |-> IF med_ok THEN ""
                        ELSE Join(MediumReasons(weighted_score, pain_score,
                                                quality_rating), " | "),
             criteria |-> [complaints_required |-> MEDIUM_COMPLAINTS_REQUIRED,
                           pain_score_required |-> MEDIUM_PAIN_SCORE,
                           actual_complaints |-> weighted_score,
                           actual_pain_score |-> pain_score,
                           quality_required |-> "medium"]],
         difficult |->
            [name |-> "Difficult (Exceptional Problem)",
             passed |-> diff_ok,
             reason |-> IF diff_ok THEN ""
                        ELSE Join(DifficultReasons(weighted_score, pain_score,
                                                   quality_rating, urgency,
                                                   emotional), " | "),
             criteria |-> [complaints_required |-> DIFFICULT_COMPLAINTS_REQUIRED,
                           pain_score_required |-> DIFFICULT_PAIN_SCORE,
                           urgency_required |-> DIFFICULT_URGENCY_THRESHOLD,
                           emotional_required |-> DIFFICULT_EMOTIONAL_THRESHOLD,
                           actual_complaints |-> weighted_score,
                           actual_pain_score |-> pain_score,
                           actual_urgency |-> urgency,
                           actual_emotional |-> emotional,
                           quality_required |-> "high"]]]

\* The passed flag of one level when the level's complaints and pain score
\* minimums are bound to the values of "required" instead of the settings'.
LevelPassedWith(level, required, res) ==
    LET weighted_score  == Get(res, "weighted_complaint_score", 0)
        pain_score      == Get(res, "pain_score", 0)
        quality_metrics == Get(res, "quality_metrics", EmptyDict)
        quality_rating  == QualityRating(quality_metrics)
    IN  /\ NumericGates(weighted_score, pain_score,
                        required.complaints_required, required.pain_score_required)
        /\ level = "medium" => QualityOk(quality_rating)
        /\ level = "difficult" =>
            /\ Get(quality_metrics, "urgency_percentage", 0)
                    >= DIFFICULT_URGENCY_THRESHOLD
            /\ Get(quality_metrics, "emotional_intensity_percentage", 0)
                    >= DIFFICULT_EMOTIONAL_THRESHOLD
            /\ quality_rating = "high"

(***************************************************************************)
(* Progress callback: absent ("none"), well-behaved ("ok"), or raising at  *)
(* the named invocation of the stage ("start", "analyze", "done").         *)
(***************************************************************************)
CallbackMessage == "callback failed"

CallbackRaises(cb, at) == cb = at

(***************************************************************************)
(* A helper whose except clause calls st.error while the name st is bound  *)
(* only by an import further down the same function: when the collaborator *)
(* raises before that import has run, the handler itself raises            *)
(* UnboundLocalError, whose text depends on the interpreter.               *)
(***************************************************************************)
UnboundLocalMessage(py) ==
    IF py = "3.11"
    THEN "cannot access local variable 'st' where it is not associated with a value"
    ELSE "local variable 'st' referenced before assignment"

PythonVersions == {"3.10", "3.11"}

(***************************************************************************)
(* PainResearchModule._search_for_complaints.  A list of search results is *)
(* represented by its length; n_promo of the n_clean cleaned results hold  *)
(* one of the exclude_keywords.  The deep-analysis scrape call passes a    *)
(* keyword the client method does not accept, so it always raises and is   *)
(* swallowed at line 207: the complaints stay the snippets.                *)
(***************************************************************************)
SERPER_PAIN_COST == 180

search_for_complaints(search) ==
    IF search.kind = "raise"
    THEN [exc |-> UnboundLocalMessage(search.py), complaints |-> 0, cost |-> 0]
    ELSE LET filtered == search.n_clean - search.n_promo
         IN  [exc |-> "",
              complaints |-> IF 2 * filtered < search.n_clean
                             THEN search.n_clean ELSE filtered,
              cost |-> SERPER_PAIN_COST]

(***************************************************************************)
(* PainResearchModule._analyze_complaints                                  *)
(***************************************************************************)
AnalysisDefaults(n_analyzed) ==
    [pain_score |-> 5,
     themes |-> <<>>,
     key_quotes |-> <<>>,
     is_urgent_problem |-> FALSE,
     analysis_summary |-> "Analysis incomplete",
     complaint_breakdown |-> [tier_3_high_impact |-> 0,
                              tier_2_moderate |-> 0,
                              tier_1_low_value |-> n_analyzed,
                              tier_0_not_complaints |-> 0,
                              total_analyzed |-> n_analyzed],
     weighted_complaint_score |-> n_analyzed,
     quality_metrics |-> [high_impact_ratio |-> 0,
                          quality_score |-> 5,   \* tenths: 0.5 in the source
                          urgency_percentage |-> 30,
                          emotional_intensity_percentage |-> 20,
                          quality_rating |-> "medium"]]

AnalysisParseFallback ==
    [pain_score |-> 5,
     themes |-> <<"Unable to parse analysis">>,
     key_quotes |-> <<>>,
     is_urgent_problem |-> FALSE,
     analysis_summary |-> "Analysis failed - could not parse response"]

AnalysisErrorFallback(msg) ==
    [pain_score |-> 0,
     themes |-> <<"Error during analysis">>,
     key_quotes |-> <<>>,
     is_urgent_problem |-> FALSE,
     analysis_summary |-> "Error: " \o msg]

analyze_complaints(n_complaints, deep, response) ==
    LET max_complaints == Min(IF deep THEN 50 ELSE 30, n_complaints)
        cost == IF response.kind = "ok" /\ Has(response, "cost")
                THEN response.cost ELSE 0
    IN  IF response.kind = "raise"
        THEN [analysis |-> AnalysisErrorFallback(response.msg), cost |-> 0]
        ELSE IF response.parse = "json"
        THEN [analysis |-> Update(AnalysisDefaults(max_complaints), response.analysis),
              cost |-> cost]
        ELSE IF response.parse = "extract"
        THEN [analysis |-> response.analysis, cost |-> cost]
        ELSE [analysis |-> AnalysisParseFallback, cost |-> cost]

(***************************************************************************)
(* PainResearchModule.run_research.  The returned record holds the result  *)
(* dict and the amount the run added to api_costs["pain_research"] and     *)
(* api_costs["total"].                                                     *)
(***************************************************************************)
ResearchInitial(problem) ==
    [problem |-> problem,
     complaints_found |-> 0,
     pain_score |-> 0,
     themes |-> <<>>,
     key_quotes |-> <<>>,
     is_urgent_problem |-> FALSE,
     analysis_summary |-> "",
     kill_decision |-> TRUE,
     kill_reason |-> "",
     complaint_breakdown |-> EmptyDict,
     weighted_complaint_score |-> 0,
     quality_metrics |-> EmptyDict,
     threshold_evaluations |-> EmptyDict]

ResearchError(res, msg) ==
    Update(res, [error |-> msg, kill_reason |-> "Error during research: " \o msg])

ResearchDecisionMutant(res) ==
    LET threshold_results == evaluate_thresholds(res)
        easy_result == threshold_results.easy
    IN  Update(res, [threshold_evaluations |-> threshold_results,
                     kill_decision |-> ~easy_result.passed,
                     kill_reason |-> IF ~easy_result.passed
                                     THEN easy_result.reason ELSE ""])

ResearchDecision(res) ==
    LET threshold_results == evaluate_thresholds(res)
        medium_result == threshold_results.medium
    IN  Update(res, [threshold_evaluations |-> threshold_results,
                     kill_decision |-> ~medium_result.passed,
                     kill_reason |-> IF ~medium_result.passed
                                     THEN medium_result.reason ELSE ""])

run_research(problem, inp) ==
    LET r0 == ResearchInitial(problem)
    IN  IF CallbackRaises(inp.cb, "start")
        THEN [results |-> ResearchError(r0, CallbackMessage), cost |-> 0]
        ELSE
        LET found == search_for_complaints(inp.search)
        IN  IF found.exc # ""
            THEN [results |-> ResearchError(r0, found.exc), cost |-> 0]
            ELSE
        LET r1 == Update(r0, [complaints_found |-> found.complaints,
                              sample_complaints |->
                                  Min(found.complaints, MAX_DISPLAY_COMPLAINTS)])
        IN  IF CallbackRaises(inp.cb, "analyze")
            THEN [results |-> ResearchError(r1, CallbackMessage), cost |-> found.cost]
            ELSE
            LET an == analyze_complaints(found.complaints, inp.deep, inp.response)
                r2 == Update(r1, an.analysis)
                r3 == ResearchDecision(r2)
                cost == found.cost + an.cost
            IN  IF CallbackRaises(inp.cb, "done")
                THEN [results |-> ResearchError(r3, CallbackMessage), cost |-> cost]
                ELSE [results |-> r3, cost |-> cost]

(***************************************************************************)
(* MarketAnalysisModule._extract_pricing.  A text is the sequence of the   *)
(* price mentions it holds, in reading order; a mention has the amount     *)
(* written (whole dollars) and the wording around it, which decides the    *)
(* monthly_patterns (numbered 1..14 in list order) that match it:          *)
(*   "per_month"      "$N per month"      patterns 1 and 14                *)
(*   "mo"             "$N/mo"             pattern 2                        *)
(*   "usd_month"      "N USD per month"   pattern 3, no dollar sign        *)
(*   "from"           "from $N"           pattern 5                        *)
(*   "plans_from_mo"  "Plans from $N/mo"  patterns 2, 5 and 7              *)
(*   "range"          "$N - $M"           pattern 10, captures N; M is     *)
(*                                        the mention's "upper"            *)
(*   "bare"           "$N"                no pattern                       *)
(* An Optional[float] is a sequence: None is <<>>, the price p is <<p>>.    *)
(***************************************************************************)
None == <<>>

FormPatterns(form) ==
    CASE form = "per_month"     -> {1, 14}
      [] form = "mo"            -> {2}
      [] form = "usd_month"     -> {3}
      [] form = "from"          -> {5}
      [] form = "plans_from_mo" -> {2, 5, 7}
      [] form = "range"         -> {10}
      [] OTHER                  -> {}

RECURSIVE Flatten(_)
Flatten(seqs) == IF seqs = <<>> THEN <<>> ELSE Head(seqs) \o Flatten(Tail(seqs))

\* all_text: scraped content first when deep analysis has it, then the
\* competitor's description, title and snippet, then the first 5 reviews.
AllText(competitor, reviews, deep) ==
    (IF deep /\ Get(competitor, "content_available", FALSE)
        /\ Get(competitor, "full_content", <<>>) # <<>>
     THEN competitor.full_content ELSE <<>>)
    \o Get(competitor, "text", <<>>)
    \o Flatten(SubSeq(reviews, 1, Min(5, Len(reviews))))

\* re.findall(pattern k, all_text): the captured amounts in reading order
PatternMatches(text, k) ==
    LET hits == SelectSeq(text, LAMBDA m : k \in FormPatterns(m.form))
    IN  [i \in 1..Len(hits) |-> hits[i].amount]

\* re.findall(simple_pattern, all_text): every amount after a dollar sign
RECURSIVE DollarAmounts(_)
DollarAmounts(text) ==
    IF text = <<>> THEN <<>>
    ELSE LET m == Head(text)
         IN  (IF m.form = "usd_month" THEN <<>>
              ELSE IF m.form = "range" THEN <<m.amount, m.upper>>
              ELSE <<m.amount>>)
             \o DollarAmounts(Tail(text))

PlausibleMutant(price) == 5 <= price

Plausible(price) == 5 <= price /\ price <= 10000

\* The pattern loop from pattern k on: only matches[0] of a pattern is
\* looked at; a pattern whose first match is implausible is passed over.
RECURSIVE PatternCascade(_, _)
PatternCascade(text, k) ==
    IF k \notin 1..14 THEN None
    ELSE LET matches == PatternMatches(text, k)
         IN  IF matches # <<>> /\ Plausible(matches[1]) THEN <<matches[1]>>
             ELSE PatternCascade(text, k + 1)

\* The fallback loop over the bare dollar amounts
RECURSIVE FirstPlausible(_)
FirstPlausible(amounts) ==
    IF amounts = <<>> THEN None
    ELSE IF Plausible(Head(amounts)) THEN <<Head(amounts)>>
    ELSE FirstPlausible(Tail(amounts))

NoPricing == [found |-> FALSE, monthly |-> None, annual |-> None, model |-> "Unknown"]

EstimatedPricingMutant(competitor, text) ==
    LET price == FirstPlausible(DollarAmounts(text))
    IN  IF price # None
        THEN Update(NoPricing, [found |-> TRUE, monthly |-> price,
                                model |-> "Subscription (estimated)"])
        ELSE NoPricing

EstimatedPricing(competitor, text) ==
    LET price == FirstPlausible(DollarAmounts(text))
    IN  IF Get(competitor, "pricing_mentioned", FALSE) /\ price # None
        THEN Update(NoPricing, [found |-> TRUE, monthly |-> price,
                                model |-> "Subscription (estimated)"])
        ELSE NoPricing

extract_pricing(competitor, reviews, deep) ==
    LET all_text == AllText(competitor, reviews, deep)
        price    == PatternCascade(all_text, 1)
    IN  IF price # None
        THEN Update(NoPricing, [found |-> TRUE, monthly |-> price,
                                model |-> "Subscription"])
        ELSE EstimatedPricing(competitor, all_text)

\* The competitor dict after _extract_pricing returned: the extractor reads
\* it through .get only and writes to its own pricing dict.
CompetitorAfterExtractMutant(competitor) == Put(competitor, "pricing_mentioned", TRUE)

CompetitorAfterExtract(competitor) == competitor

(***************************************************************************)
(* MarketAnalysisModule._count_paying_competitors.  An enriched competitor *)
(* is a dict with "name", optionally "pricing" (absent when enrichment     *)
(* raised) and "pricing_mentioned".  Its description and title are held as *)
(* "price_matches", the result of re.findall for each of the five price    *)
(* patterns in order (a match is the sequence of its captured amounts),    *)
(* and "words", the searched-for phrases the lowercased text contains.  A  *)
(* name is the sequence of its pieces between colons, so that the pieces   *)
(* are what str.split(":") returns.  The count is kept in halves.          *)
(***************************************************************************)
PaidSignals ==
    {"enterprise", "business pricing", "professional plan", "team plan", "premium",
     "per user", "per month", "subscription"}

ExactPriced(comp) ==
    LET pricing == Get(comp, "pricing", EmptyDict)
    IN  Get(pricing, "found", FALSE) /\ Get(pricing, "monthly", 0) # 0

MentionScanned(comp) == ~ExactPriced(comp) /\ Get(comp, "pricing_mentioned", FALSE)

MatchHigh(match) == \E i \in 1..Len(match) : match[i] >= MIN_COMPETITOR_PRICE

\* One pattern's loop over its matches: once found_price is set the loop
\* leaves after the first match, before that it runs until a match counts.
PatternCredit(matches, found_price) ==
    IF found_price
    THEN IF matches # <<>> /\ MatchHigh(matches[1]) THEN 1 ELSE 0
    ELSE IF \E i \in 1..Len(matches) : MatchHigh(matches[i]) THEN 1 ELSE 0

RECURSIVE MentionCredits(_, _)
MentionCredits(patterns, found_price) ==
    IF patterns = <<>> THEN 0
    ELSE LET c == PatternCredit(Head(patterns), found_price)
         IN  c + MentionCredits(Tail(patterns), found_price \/ c > 0)

CompetitorHalves(comp) ==
    IF ExactPriced(comp)
    THEN IF comp.pricing.monthly >= MIN_COMPETITOR_PRICE THEN 2 ELSE 0
    ELSE IF MentionScanned(comp)
    THEN LET credits == MentionCredits(comp.price_matches, FALSE)
         IN  IF credits > 0 THEN 2 * credits
             ELSE IF "pricing" \in comp.words THEN 1 ELSE 0
    ELSE 0

NameHead(name) == <<name[1]>>

RECURSIVE CreditHalves(_)
CreditHalves(competitors) ==
    IF competitors = <<>> THEN 0
    ELSE CompetitorHalves(Head(competitors)) + CreditHalves(Tail(competitors))

CountedHeads(competitors) ==
    {NameHead(competitors[i].name) :
        i \in {j \in 1..Len(competitors) : CompetitorHalves(competitors[j]) >= 2}}

RECURSIVE SignalHalves(_, _)
SignalHalves(competitors, heads) ==
    IF competitors = <<>> THEN 0
    ELSE (IF Head(competitors).name \notin heads
             /\ Head(competitors).words \cap PaidSignals # {}
          THEN 1 ELSE 0)
         + SignalHalves(Tail(competitors), heads)

\* The competitors (by position) the first loop gave credit to, and those
\* the second loop reports as "likely paid based on description".
EarlyCredited(competitors) ==
    {i \in 1..Len(competitors) : CompetitorHalves(competitors[i]) > 0}

BackstopCredited(competitors) ==
    IF CreditHalves(competitors) < 2 * 3
    THEN {i \in 1..Len(competitors) :
            /\ competitors[i].name \notin CountedHeads(competitors)
            /\ competitors[i].words \cap PaidSignals # {}}
    ELSE {}

count_paying_competitors(competitors) ==
    LET count == CreditHalves(competitors)
        total == IF count < 2 * 3
                 THEN count + SignalHalves(competitors, CountedHeads(competitors))
                 ELSE count
    IN  total \div 2

(***************************************************************************)
(* MarketAnalysisModule._analyze_market                                    *)
(***************************************************************************)
ZeroPricing == [monthly_low |-> 0, monthly_high |-> 0, monthly_average |-> 0]

UnknownSegments == [primary |-> "Unknown", secondary |-> "Unknown", emerging |-> "Unknown"]

EmptyLandscape ==
    [direct_competitors |-> 0, indirect_competitors |-> 0,
     market_leaders |-> <<>>, emerging_players |-> <<>>]

MarketDefaults ==
    [avg_pricing |-> ZeroPricing,
     market_maturity |-> "Unknown",
     pricing_models |-> <<>>,
     market_segments |-> UnknownSegments,
     competitive_landscape |-> EmptyLandscape,
     technology_trends |-> <<>>,
     barriers_to_entry |-> <<>>,
     growth_indicators |-> <<>>]

MarketFallback(size, gap, insights) ==
    [market_size |-> size,
     market_maturity |-> "Unknown",
     avg_pricing |-> ZeroPricing,
     pricing_models |-> <<>>,
     gaps |-> <<gap>>,
     opportunity_score |-> 0,
     insights |-> insights,
     top_competitors |-> <<>>,
     market_segments |-> UnknownSegments,
     competitive_landscape |-> EmptyLandscape,
     technology_trends |-> <<>>,
     barriers_to_entry |-> <<>>,
     growth_indicators |-> <<>>]

analyze_market(response) ==
    LET cost == IF response.kind = "ok" /\ Has(response, "cost")
                THEN response.cost ELSE 0
    IN  IF response.kind = "raise"
        THEN [analysis |-> MarketFallback("Error", "Error: " \o response.msg,
                                          "Analysis error: " \o response.msg),
              cost |-> 0]
        ELSE IF response.parse = "json"
        THEN [analysis |-> Update(MarketDefaults, response.analysis), cost |-> cost]
        ELSE [analysis |-> MarketFallback("Unable to determine", "Analysis failed",
                                          "Failed to parse analysis"),
              cost |-> cost]

(***************************************************************************)
(* MarketAnalysisModule.run_analysis.  A top_competitors entry is held as  *)
(* the sequence of the dollar amounts the pattern \$(\d+) finds in it.     *)
(***************************************************************************)
SERPER_MARKET_COST == 120

AnalysisInitial(problem) ==
    [problem |-> problem,
     competitors_found |-> 0,
     avg_pricing |-> ZeroPricing,
     market_size |-> "Unknown",
     gaps |-> <<>>,
     opportunity_score |-> 0,
     insights |-> "",
     top_competitors |-> <<>>,
     kill_decision |-> TRUE,
     kill_reason |-> ""]

AnalysisError(res, msg) ==
    Update(res, [error |-> msg, kill_reason |-> "Error during analysis: " \o msg])

HighPriceCompetitors(enriched) ==
    SelectSeq(enriched,
              LAMBDA comp : LET pricing == Get(comp, "pricing", EmptyDict)
                            IN  /\ Get(pricing, "found", FALSE)
                                /\ Get(pricing, "monthly", 0) >= MIN_COMPETITOR_PRICE)

HasHighPrice(comp_str) ==
    \E i \in 1..Len(comp_str) : comp_str[i] >= MIN_COMPETITOR_PRICE

claude_count(analysis, n_enriched) ==
    LET listed == IF Has(analysis, "top_competitors")
                  THEN Len(SelectSeq(analysis.top_competitors, HasHighPrice))
                  ELSE 0
        avg == Get(Get(analysis, "avg_pricing", EmptyDict), "monthly_average", 0)
    IN  IF avg >= MIN_COMPETITOR_PRICE /\ listed < 3 /\ n_enriched >= 3
        THEN 3 ELSE listed

PayingCompetitorsMutant(analysis, enriched) ==
    claude_count(analysis, Len(enriched))

PayingCompetitors(analysis, enriched) ==
    Max(claude_count(analysis, Len(enriched)), count_paying_competitors(enriched))

KillCascadeMutant(res, paying_competitors) ==
    IF paying_competitors < 3
    THEN [exc |-> "",
          res |-> Update(res, [kill_decision |-> TRUE,
                               kill_reason |-> "Only " \o ToString(paying_competitors)
                                   \o " competitors charging $"
                                   \o ToString(MIN_COMPETITOR_PRICE) \o "+/month found"])]
    ELSE IF res.opportunity_score < 6
    THEN [exc |-> "",
          res |-> Update(res, [kill_decision |-> TRUE,
                               kill_reason |-> "Low market opportunity score: "
                                   \o ToString(res.opportunity_score) \o "/10"])]
    ELSE IF ~Has(res.avg_pricing, "monthly_average")
    THEN [exc |-> "'monthly_average'", res |-> res]
    ELSE IF res.avg_pricing.monthly_average < MIN_COMPETITOR_PRICE
    THEN [exc |-> "",
          res |-> Update(res, [kill_decision |-> TRUE,
                               kill_reason |-> "Average market pricing $"
                                   \o ToString(res.avg_pricing.monthly_average)
                                   \o " is below $" \o ToString(MIN_COMPETITOR_PRICE)
                                   \o " threshold"])]
    ELSE [exc |-> "", res |-> Update(res, [kill_decision |-> FALSE, kill_reason |-> ""])]

KillCascade(res, paying_competitors) ==
    IF paying_competitors < 3
    THEN [exc |-> "",
          res |-> Update(res, [kill_decision |-> TRUE,
                               kill_reason |-> "Only " \o ToString(paying_competitors)
                                   \o " competitors charging $"
                                   \o ToString(MIN_COMPETITOR_PRICE) \o "+/month found"])]
    ELSE IF ~Has(res.avg_pricing, "monthly_average")
    THEN [exc |-> "'monthly_average'", res |-> res]
    ELSE IF res.avg_pricing.monthly_average < MIN_COMPETITOR_PRICE
    THEN [exc |-> "",
          res |-> Update(res, [kill_decision |-> TRUE,
                               kill_reason |-> "Average market pricing $"
                                   \o ToString(res.avg_pricing.monthly_average)
                                   \o " is below $" \o ToString(MIN_COMPETITOR_PRICE)
                                   \o " threshold"])]
    ELSE IF res.opportunity_score < 6
    THEN [exc |-> "",
          res |-> Update(res, [kill_decision |-> TRUE,
                               kill_reason |-> "Low market opportunity score: "
                                   \o ToString(res.opportunity_score) \o "/10"])]
    ELSE [exc |-> "", res |-> Update(res, [kill_decision |-> FALSE, kill_reason |-> ""])]

run_analysis(problem, inp) ==
    LET r0 == AnalysisInitial(problem)
    IN  IF CallbackRaises(inp.cb, "start")
        THEN [results |-> AnalysisError(r0, CallbackMessage), cost |-> 0]
        ELSE
        LET competitors == IF inp.search.kind = "raise" THEN <<>>
                           ELSE inp.search.competitors
            enriched == SubSeq(competitors, 1, Min(10, Len(competitors)))
            r1 == Update(r0, [competitors_found |-> Len(competitors),
                              sample_competitors |-> enriched])
        IN  IF CallbackRaises(inp.cb, "analyze")
            THEN [results |-> AnalysisError(r1, CallbackMessage),
                  cost |-> SERPER_MARKET_COST]
            ELSE
            LET an == analyze_market(inp.response)
                r2 == Update(Update(r1, an.analysis),
                             [high_price_competitors |-> HighPriceCompetitors(enriched)])
                decided == KillCascade(r2, PayingCompetitors(an.analysis, enriched))
                cost == SERPER_MARKET_COST + an.cost
            IN  IF decided.exc # ""
                THEN [results |-> AnalysisError(decided.res, decided.exc), cost |-> cost]
                ELSE IF CallbackRaises(inp.cb, "done")
                THEN [results |-> AnalysisError(decided.res, CallbackMessage),
                      cost |-> cost]
                ELSE [results |-> decided.res, cost |-> cost]

(***************************************************************************)
(* ContentGenerationModule.  Conversion rates are held in units of 0.0001  *)
(* (MIN_SIGNUP_RATE = 0.02 is 200); the rates used are whole tenths of a   *)
(* percent, which "%.1f" prints without rounding.                          *)
(***************************************************************************)
MIN_SIGNUP_RATE == 200

FallbackLandingPage(problem) ==
    [headline |-> "Finally, a Solution for " \o problem,
     subheadline |-> "Join thousands who've already transformed their workflow",
     cta_text |-> "Get Early Access"]

\* _generate_landing_page and _generate_social_posts: [exc, value, cost]
generate_with_fallback(response, fallback, py) ==
    IF response.kind = "raise"
    THEN [exc |-> UnboundLocalMessage(py), value |-> EmptyDict, cost |-> 0]
    ELSE LET cost == Get(response, "cost", 0)
         IN  IF response.parse = "json"
             THEN [exc |-> "", value |-> response.value, cost |-> cost]
             ELSE [exc |-> "", value |-> fallback, cost |-> cost]

FallbackSocialPosts(problem) ==
    LET default_post == "Tired of " \o problem
            \o "? We're building something that finally solves this. Join our waitlist: [link]"
    IN  [LinkedIn |-> <<default_post, default_post, default_post>>,
         Twitter |-> <<default_post, default_post, default_post>>,
         Facebook |-> <<default_post, default_post, default_post>>]

evaluate_content(response) ==
    IF response.kind = "raise"
    THEN [evaluation |-> [predicted_conversion |-> 100, messaging_score |-> 0,
                          suggestions |-> <<"Evaluation error: " \o response.msg>>],
          cost |-> 0]
    ELSE LET cost == Get(response, "cost", 0)
         IN  IF response.parse = "json"
             THEN [evaluation |->
                      Update(response.value,
                             [predicted_conversion |->
                                  Max(0, Min(10000, Get(response.value,
                                                        "predicted_conversion", 200))),
                              messaging_score |->
                                  Max(1, Min(10, Get(response.value,
                                                     "messaging_score", 5)))]),
                   cost |-> cost]
             ELSE [evaluation |->
                      [predicted_conversion |-> 200, messaging_score |-> 5,
                       suggestions |->
                           <<"Unable to evaluate content - JSON parsing error">>],
                   cost |-> cost]

\* f"{predicted_conversion*100:.1f}" for a rate in units of 0.0001
PercentOneDecimal(rate) ==
    ToString(rate \div 100) \o "." \o ToString((rate % 100) \div 10)

GenerationInitialMutant(problem) ==
    [problem |-> problem,
     landing_page |-> EmptyDict,
     social_posts |-> EmptyDict,
     predicted_conversion |-> 0,
     messaging_score |-> 0]

GenerationInitial(problem) ==
    [problem |-> problem,
     landing_page |-> EmptyDict,
     social_posts |-> EmptyDict,
     predicted_conversion |-> 0,
     messaging_score |-> 0,
     kill_decision |-> TRUE,
     kill_reason |-> ""]

GenerationError(res, msg) ==
    Update(res, [error |-> msg,
                 kill_reason |-> "Error during content generation: " \o msg])

GenerationDecisionMutant(res) ==
    IF res.messaging_score < 6
    THEN Update(res, [kill_decision |-> TRUE,
                      kill_reason |-> "Messaging effectiveness score "
                          \o ToString(res.messaging_score) \o "/10 is too low"])
    ELSE IF res.predicted_conversion < MIN_SIGNUP_RATE
    THEN Update(res, [kill_decision |-> TRUE,
                      kill_reason |-> "Predicted conversion rate "
                          \o PercentOneDecimal(res.predicted_conversion)
                          \o "% is below 2.0% threshold"])
    ELSE Update(res, [kill_decision |-> FALSE, kill_reason |-> ""])

GenerationDecision(res) ==
    IF res.predicted_conversion < MIN_SIGNUP_RATE
    THEN Update(res, [kill_decision |-> TRUE,
                      kill_reason |-> "Predicted conversion rate "
                          \o PercentOneDecimal(res.predicted_conversion)
                          \o "% is below 2.0% threshold"])
    ELSE IF res.messaging_score < 6
    THEN Update(res, [kill_decision |-> TRUE,
                      kill_reason |-> "Messaging effectiveness score "
                          \o ToString(res.messaging_score) \o "/10 is too low"])
    ELSE Update(res, [kill_decision |-> FALSE, kill_reason |-> ""])

TrackingGuidance == [landing_page_tracking |-> "metrics and tools"]

run_generation(problem, inp) ==
    LET r0 == GenerationInitial(problem)
    IN  IF CallbackRaises(inp.cb, "start")
        THEN [results |-> GenerationError(r0, CallbackMessage), cost |-> 0]
        ELSE
        LET lp == generate_with_fallback(inp.landing, FallbackLandingPage(problem), inp.py)
        IN  IF lp.exc # ""
            THEN [results |-> GenerationError(r0, lp.exc), cost |-> 0]
            ELSE
            LET r1 == Update(r0, [landing_page |-> lp.value])
                sp == generate_with_fallback(inp.social, FallbackSocialPosts(problem),
                                             inp.py)
            IN  IF sp.exc # ""
                THEN [results |-> GenerationError(r1, sp.exc), cost |-> lp.cost]
                ELSE
                LET r2 == Update(r1, [social_posts |-> sp.value])
                    cost2 == lp.cost + sp.cost
                IN  IF CallbackRaises(inp.cb, "analyze")
                    THEN [results |-> GenerationError(r2, CallbackMessage),
                          cost |-> cost2]
                    ELSE
                    LET ev == evaluate_content(inp.evaluation)
                        r3 == Update(r2,
                                  [predicted_conversion |->
                                       ev.evaluation.predicted_conversion,
                                   messaging_score |-> ev.evaluation.messaging_score,
                                   improvement_suggestions |->
                                       Get(ev.evaluation, "suggestions", <<>>)])
                        r4 == Update(GenerationDecision(r3),
                                     [tracking_guidance |-> TrackingGuidance])
                        cost == cost2 + ev.cost
                    IN  IF CallbackRaises(inp.cb, "done")
                        THEN [results |-> GenerationError(r4, CallbackMessage),
                              cost |-> cost]
                        ELSE [results |-> r4, cost |-> cost]

(***************************************************************************)
(* SurveyAnalysisModule                                                    *)
(***************************************************************************)
MIN_WILLINGNESS_TO_PAY == 50

DefaultQuestions(solution) ==
    <<"How much would you pay monthly for " \o solution \o "?">>

EmailQuestion ==
    "If you'd like to be notified when we launch, please enter your email:"

SurveyInitial ==
    [questions |-> <<>>,
     estimated_completion_time |-> "3-5 minutes",
     survey_link |-> "Not implemented - would generate unique survey URL"]

generate_survey(proposed_solution, response) ==
    IF response.kind = "raise"
    THEN [results |-> Update(SurveyInitial,
                             [error |-> response.msg,
                              questions |-> DefaultQuestions(proposed_solution)]),
          cost |-> 0]
    ELSE [results |->
              IF response.parse = "json"
              THEN Update(SurveyInitial,
                          [questions |-> Append(response.value, EmailQuestion)])
              ELSE Update(SurveyInitial,
                          [questions |-> DefaultQuestions(proposed_solution)]),
          cost |-> Get(response, "cost", 0)]

ResponsesInitial(n_responses) ==
    [total_responses |-> n_responses,
     avg_wtp |-> 0,
     price_range |-> [min |-> 0, max |-> 0, median |-> 0],
     price_distribution |-> EmptyDict,
     top_features |-> <<>>,
     insights |-> "",
     recommended_price |-> 0,
     percent_over_50 |-> 0,
     kill_decision |-> TRUE,
     kill_reason |-> ""]

ResponsesError(res, msg) ==
    Update(res, [error |-> msg, kill_reason |-> "Error during analysis: " \o msg])

ResponsesDecision(res) ==
    IF res.avg_wtp < MIN_WILLINGNESS_TO_PAY
    THEN Update(res, [kill_decision |-> TRUE,
                      kill_reason |-> "Average WTP $" \o ToString(res.avg_wtp)
                          \o " is below $" \o ToString(MIN_WILLINGNESS_TO_PAY)
                          \o " threshold"])
    ELSE IF res.percent_over_50 < 30
    THEN Update(res, [kill_decision |-> TRUE,
                      kill_reason |-> "Only " \o ToString(res.percent_over_50)
                          \o "% willing to pay $50+ (need 30%+)"])
    ELSE Update(res, [kill_decision |-> FALSE, kill_reason |-> ""])

analyze_responses(inp) ==
    LET r0 == ResponsesInitial(inp.n_responses)
    IN  IF inp.n_responses = 0
        THEN [results |-> Update(r0, [kill_reason |-> "No survey responses to analyze"]),
              cost |-> 0]
        ELSE IF CallbackRaises(inp.cb, "start")
        THEN [results |-> ResponsesError(r0, CallbackMessage), cost |-> 0]
        ELSE IF inp.response.kind = "raise"
        THEN [results |-> ResponsesError(r0, inp.response.msg), cost |-> 0]
        ELSE
        LET cost == Get(inp.response, "cost", 0)
            r1 == IF inp.response.parse = "json"
                  THEN ResponsesDecision(Update(r0, inp.response.value))
                  ELSE Update(r0, [insights |-> "Failed to analyze responses",
                                   kill_reason |-> "Analysis error"])
        IN  IF CallbackRaises(inp.cb, "done")
            THEN [results |-> ResponsesError(r1, CallbackMessage), cost |-> cost]
            ELSE [results |-> r1, cost |-> cost]

(***************************************************************************)
(* Inputs of the stage operations.  An absent dict key is drawn as -1      *)
(* (numbers) or "" (strings) and left out of the dict that is built.       *)
(***************************************************************************)
OptInt(k, v) == IF v < 0 THEN EmptyDict ELSE k :> v

OptStr(k, v) == IF v = "" THEN EmptyDict ELSE k :> v

OptDict(k, present, d) == IF present THEN k :> d ELSE EmptyDict

WeightedValues ==
    {-1, 0, EASY_COMPLAINTS_REQUIRED - 1, EASY_COMPLAINTS_REQUIRED,
     MEDIUM_COMPLAINTS_REQUIRED - 2, MEDIUM_COMPLAINTS_REQUIRED - 1,
     MEDIUM_COMPLAINTS_REQUIRED, DIFFICULT_COMPLAINTS_REQUIRED - 1,
     DIFFICULT_COMPLAINTS_REQUIRED, 110}

PainValues ==
    {-1, 0, EASY_PAIN_SCORE - 1, EASY_PAIN_SCORE, MEDIUM_PAIN_SCORE,
     DIFFICULT_PAIN_SCORE - 1, DIFFICULT_PAIN_SCORE, 10}

QualityMetricsValues ==
    {OptStr("quality_rating", q) @@ OptInt("urgency_percentage", u)
        @@ OptInt("emotional_intensity_percentage", e) :
        <<q, u, e>> \in
            {"", "low", "medium", "high"}
            \X {-1, DIFFICULT_URGENCY_THRESHOLD - 1, DIFFICULT_URGENCY_THRESHOLD}
            \X {-1, DIFFICULT_EMOTIONAL_THRESHOLD - 1, DIFFICULT_EMOTIONAL_THRESHOLD}}

ThresholdInputs ==
    {OptInt("weighted_complaint_score", w) @@ OptInt("pain_score", p)
        @@ OptDict("quality_metrics", hasq, qm) :
        <<w, p, hasq, qm>> \in
            (WeightedValues \X PainValues \X {TRUE} \X QualityMetricsValues)
            \cup (WeightedValues \X PainValues \X {FALSE} \X {EmptyDict})}

\* Minimums a level can be configured with, and metrics around them.
RequiredValues ==
    [complaints_required : {EASY_COMPLAINTS_REQUIRED, MEDIUM_COMPLAINTS_REQUIRED,
                            DIFFICULT_COMPLAINTS_REQUIRED},
     pain_score_required : {EASY_PAIN_SCORE, MEDIUM_PAIN_SCORE, DIFFICULT_PAIN_SCORE}]

PatchedMetrics ==
    {m \in ThresholdInputs :
        /\ Get(m, "weighted_complaint_score", 0) \in
              {EASY_COMPLAINTS_REQUIRED - 1, EASY_COMPLAINTS_REQUIRED,
               MEDIUM_COMPLAINTS_REQUIRED - 1, MEDIUM_COMPLAINTS_REQUIRED,
               DIFFICULT_COMPLAINTS_REQUIRED}
        /\ Get(m, "pain_score", 0) \in
              {EASY_PAIN_SCORE - 1, EASY_PAIN_SCORE, MEDIUM_PAIN_SCORE,
               DIFFICULT_PAIN_SCORE}
        /\ Get(Get(m, "quality_metrics", EmptyDict), "quality_rating", "") # ""
        /\ Get(Get(m, "quality_metrics", EmptyDict), "urgency_percentage", -1)
              = DIFFICULT_URGENCY_THRESHOLD
        /\ Get(Get(m, "quality_metrics", EmptyDict),
               "emotional_intensity_percentage", -1) = DIFFICULT_EMOTIONAL_THRESHOLD}

Breakdown(t3, t2, t1, t0) ==
    [tier_3_high_impact |-> t3, tier_2_moderate |-> t2, tier_1_low_value |-> t1,
     tier_0_not_complaints |-> t0, total_analyzed |-> t3 + t2 + t1 + t0]

BreakdownA == Breakdown(20, 25, 15, 0)

BreakdownB == Breakdown(2, 8, 20, 0)

ScoredBreakdowns ==
    {OptDict("complaint_breakdown", hasb, b) @@ OptInt("weighted_complaint_score", w) :
        <<hasb, b, w>> \in
            ({TRUE} \X {BreakdownA} \X {-1, 110, 125})
            \cup ({TRUE} \X {BreakdownB} \X {-1, 38, 42})
            \cup ({FALSE} \X {EmptyDict} \X {-1, 45})}

QualityLow ==
    [high_impact_ratio |-> 0, quality_score |-> 3, urgency_percentage |-> 10,
     emotional_intensity_percentage |-> 5, quality_rating |-> "low"]

QualityHigh ==
    [high_impact_ratio |-> 3, quality_score |-> 7, urgency_percentage |-> 45,
     emotional_intensity_percentage |-> 40, quality_rating |-> "high"]

ThemesA == <<"Theme 1", "Theme 2">>

PainAnalyses ==
    {OptInt("pain_score", p) @@ sb @@ OptDict("quality_metrics", q[1], q[2])
        @@ OptDict("themes", hast, ThemesA) :
        <<p, sb, q, hast>> \in
            {-1, 4, 8} \X ScoredBreakdowns
            \X {<<TRUE, QualityLow>>, <<TRUE, QualityHigh>>, <<FALSE, EmptyDict>>}
            \X BOOLEAN}

ClaudeCostValues == {-1, 250}

PainResponses ==
    {[kind |-> "raise", msg |-> "Claude API error: overloaded"]}
    \cup {[kind |-> "ok", parse |-> "none"] @@ OptInt("cost", c) : c \in ClaudeCostValues}
    \cup {[kind |-> "ok", parse |-> ps, analysis |-> a] @@ OptInt("cost", c) :
            <<ps, a, c>> \in {"json", "extract"} \X PainAnalyses \X ClaudeCostValues}

SearchOutcomes ==
    {[kind |-> "raise", msg |-> "Serper API error", py |-> py] : py \in PythonVersions}
    \cup {[kind |-> "ok", n_clean |-> np[1], n_promo |-> np[2]] :
            np \in {<<0, 0>>, <<25, 5>>, <<60, 0>>, <<60, 40>>}}

Callbacks == {"none", "ok", "start", "analyze", "done"}

ResearchInputs ==
    [search : SearchOutcomes, deep : BOOLEAN, response : PainResponses, cb : Callbacks]

NoMatches == <<<<>>, <<>>, <<>>, <<>>, <<>>>>

\* Enriched search results.  Acme: "$60/month" found by the extractor.
\* Budget: "$20/month subscription".  ProCRM: a name with a colon, "$99 per
\* month", enterprise.  Delta: enrichment raised, snippet "from $80".
\* Vague: "see our pricing page", nothing extracted.  Plain: no price signal.
Acme ==
    [name |-> <<"Acme">>, pricing |-> [found |-> TRUE, monthly |-> 60],
     pricing_mentioned |-> TRUE,
     price_matches |-> <<<<<<60>>>>, <<>>, <<>>, <<>>, <<>>>>, words |-> {}]

Budget ==
    [name |-> <<"Budget">>, pricing |-> [found |-> TRUE, monthly |-> 20],
     pricing_mentioned |-> TRUE,
     price_matches |-> <<<<<<20>>>>, <<>>, <<>>, <<>>, <<>>>>,
     words |-> {"subscription"}]

ProCRM ==
    [name |-> <<"Pro", " CRM">>, pricing |-> [found |-> TRUE, monthly |-> 99],
     pricing_mentioned |-> TRUE,
     price_matches |-> <<<<<<99>>>>, <<>>, <<>>, <<>>, <<>>>>,
     words |-> {"enterprise", "per month"}]

Delta ==
    [name |-> <<"Delta">>, pricing_mentioned |-> TRUE,
     price_matches |-> <<<<<<80>>>>, <<>>, <<<<80>>>>, <<>>, <<>>>>, words |-> {}]

Vague ==
    [name |-> <<"Vague">>, pricing |-> [found |-> FALSE, monthly |-> 0],
     pricing_mentioned |-> TRUE, price_matches |-> NoMatches,
     words |-> {"pricing"}]

Plain ==
    [name |-> <<"Plain">>, pricing |-> [found |-> FALSE, monthly |-> 0],
     pricing_mentioned |-> FALSE, price_matches |-> NoMatches, words |-> {}]

\* Teams: "see our pricing page for team plan", nothing extracted.
\* Premium: "premium subscription", no price, pricing not mentioned.
Teams ==
    [name |-> <<"Teams">>, pricing |-> [found |-> FALSE, monthly |-> 0],
     pricing_mentioned |-> TRUE, price_matches |-> NoMatches,
     words |-> {"pricing", "team plan"}]

Premium ==
    [name |-> <<"Premium">>, pricing |-> [found |-> FALSE, monthly |-> 0],
     pricing_mentioned |-> FALSE, price_matches |-> NoMatches,
     words |-> {"premium", "subscription"}]

SeqsUpTo(S, n) == UNION {[1..k -> S] : k \in 0..n}

\* Texts for the pricing extractor: mentions below, inside, at the edges of
\* and above the plausibility band, in each wording.
Mention(amount, form) == [amount |-> amount, form |-> form]

Mentions ==
    {Mention(a, f) : a \in {2, 79, 10001},
                     f \in {"per_month", "mo", "usd_month", "from", "bare"}}
    \cup {Mention(5, "mo"), Mention(10000, "mo"), Mention(4, "bare"),
          Mention(79, "plans_from_mo"),
          [amount |-> 2, form |-> "range", upper |-> 79],
          [amount |-> 79, form |-> "range", upper |-> 199]}

\* Arguments of the extractor: a text of up to MaxMentions mentions, flagged
\* or not, with or without scraped content, and no review, one review or
\* six reviews of which only the sixth holds a price.
ExtractInputs ==
    {[competitor |-> ("text" :> t) @@ OptDict("pricing_mentioned", flagged, TRUE) @@ sc,
      reviews |-> rv, use_deep_analysis |-> deep] :
        <<t, flagged, sc, rv, deep>> \in
            SeqsUpTo(Mentions, MaxMentions)
            \X BOOLEAN
            \X {EmptyDict,
                [content_available |-> TRUE, full_content |-> <<Mention(149, "mo")>>]}
            \X {<<>>,
                << <<Mention(99, "mo")>> >>,
                << <<>>, <<>>, <<>>, <<>>, <<>>, <<Mention(99, "mo")>> >>}
            \X BOOLEAN}

CompetitorLists ==
    SeqsUpTo({Acme, Budget, ProCRM, Delta, Vague, Plain, Teams}, MaxCompetitors)

MarketSearchOutcomes ==
    {[kind |-> "raise", msg |-> "Serper API error"]}
    \cup {[kind |-> "ok", competitors |-> cs] :
            cs \in SeqsUpTo({Acme, Budget, Vague}, MaxCompetitors)}

TopCompetitorsValues ==
    {<<>>,
     <<<<99>>, <<59>>, <<149>>>>,
     <<<<29, 79>>, <<10>>>>}

AvgPricingValues ==
    {[monthly_low |-> 30, monthly_high |-> 150, monthly_average |-> 75],
     [monthly_low |-> 10, monthly_high |-> 60, monthly_average |-> 30],
     [monthly_low |-> 30, monthly_high |-> 150]}

GapsA == <<"No mobile-first option">>

MarketAnalyses ==
    {OptDict("top_competitors", t[1], t[2]) @@ OptDict("avg_pricing", a[1], a[2])
        @@ OptInt("opportunity_score", o) @@ OptDict("gaps", hasg, GapsA) :
        <<t, a, o, hasg>> \in
            ({<<FALSE, <<>>>>} \cup {<<TRUE, v>> : v \in TopCompetitorsValues})
            \X ({<<FALSE, <<>>>>} \cup {<<TRUE, v>> : v \in AvgPricingValues})
            \X {-1, 5, 6}
            \X BOOLEAN}

MarketResponses ==
    {[kind |-> "raise", msg |-> "Claude API error: overloaded"]}
    \cup {[kind |-> "ok", parse |-> "none"] @@ OptInt("cost", c) : c \in ClaudeCostValues}
    \cup {[kind |-> "ok", parse |-> "json", analysis |-> a, cost |-> 250] :
            a \in MarketAnalyses}

AnalysisInputs ==
    [search : MarketSearchOutcomes, response : MarketResponses, cb : Callbacks]

ClaudeRaise == [kind |-> "raise", msg |-> "Claude API error: overloaded"]

Unparseable == [kind |-> "ok", parse |-> "none", cost |-> 250]

Json(value) == [kind |-> "ok", parse |-> "json", value |-> value, cost |-> 250]

LandingPageA ==
    [headline |-> "Inventory that runs itself", cta_text |-> "Join the waitlist"]

LandingResponses ==
    {ClaudeRaise, Unparseable, Json(LandingPageA), Json([cta_text |-> "Join"]),
     [kind |-> "ok", parse |-> "json", value |-> LandingPageA]}

SocialResponses ==
    {ClaudeRaise, Unparseable, Json([LinkedIn |-> <<"Post 1">>])}

EvaluationResponses ==
    {ClaudeRaise, Unparseable}
    \cup {Json(OptInt("predicted_conversion", c) @@ OptInt("messaging_score", m)
               @@ [suggestions |-> <<"Sharpen the headline">>]) :
            <<c, m>> \in {-1, 100, 150, 300} \X {-1, 0, 5, 6, 12}}

GenerationInputs ==
    [landing : LandingResponses, social : SocialResponses,
     evaluation : EvaluationResponses, cb : Callbacks, py : PythonVersions]

SurveyQuestionResponses ==
    {ClaudeRaise, Unparseable, Json(<<"What would you pay?", "What do you use today?">>)}

SurveyAnalysisResponses ==
    {ClaudeRaise, Unparseable}
    \cup {Json(OptInt("avg_wtp", w) @@ OptInt("percent_over_50", pct)
               @@ [insights |-> "Most respondents pay for a tool today"]) :
            <<w, pct>> \in {-1, 40, 50, 80} \X {-1, 20, 30, 45}}

ResponsesInputs ==
    [n_responses : {0, 75}, response : SurveyAnalysisResponses,
     cb : Callbacks \ {"analyze"}]

ProblemA == "Small businesses struggle to manage inventory"

AudienceA == "Small e-commerce businesses"

(***************************************************************************)
(* Session state: app.py init_session_state                                *)
(***************************************************************************)
StageKeys ==
    <<"input", "pain_research", "market_analysis", "content_generation",
      "survey", "results">>

InitKeys ==
    {"validation_stage", "results", "problem_description", "target_audience",
     "current_task", "api_costs"}

ZeroCosts ==
    [pain_research |-> 0, market_analysis |-> 0, content_generation |-> 0,
     survey_analysis |-> 0, total |-> 0]

SessionInit ==
    /\ validation_stage = "input"
    /\ results = EmptyDict
    /\ problem_description = ""
    /\ target_audience = ""
    /\ api_costs = ZeroCosts
    /\ use_deep_analysis = FALSE
    /\ session_keys = InitKeys

(***************************************************************************)
(* utils/validators.py.  A typed text is held by what the validators read: *)
(* the text itself, the length of text.strip(), whether it has a run of    *)
(* three letters, and what is left once tags are removed and whitespace is *)
(* collapsed.                                                              *)
(***************************************************************************)
validate_problem_description(problem) ==
    IF problem.text = "" THEN [valid |-> FALSE, error |-> "Problem description is required"]
    ELSE IF problem.stripped_len < 10
    THEN [valid |-> FALSE, error |-> "Problem description must be at least 10 characters"]
    ELSE IF problem.stripped_len > 500
    THEN [valid |-> FALSE, error |-> "Problem description must be less than 500 characters"]
    ELSE IF ~problem.has_word
    THEN [valid |-> FALSE, error |-> "Problem description must contain meaningful text"]
    ELSE [valid |-> TRUE, error |-> ""]

validate_target_audience(audience) ==
    IF audience.text = "" THEN [valid |-> FALSE, error |-> "Target audience is required"]
    ELSE IF audience.stripped_len < 5
    THEN [valid |-> FALSE,
          error |-> "Target audience description must be at least 5 characters"]
    ELSE IF audience.stripped_len > 200
    THEN [valid |-> FALSE,
          error |-> "Target audience description must be less than 200 characters"]
    ELSE [valid |-> TRUE, error |-> ""]

sanitize_input(text) == IF text.text = "" THEN "" ELSE text.sanitized

Typed(text, stripped_len, has_word, sanitized) ==
    [text |-> text, stripped_len |-> stripped_len, has_word |-> has_word,
     sanitized |-> sanitized]

ProblemTexts ==
    {Typed("", 0, FALSE, ""),
     Typed("too short", 9, TRUE, "too short"),
     Typed("1234567890 !!", 13, FALSE, "1234567890 !!"),
     Typed("  Small businesses struggle to manage inventory ", 45, TRUE, ProblemA),
     Typed("<b>Small businesses</b> struggle to manage inventory", 52, TRUE, ProblemA),
     Typed("<script>alert(1)</script>", 25, TRUE, ""),
     Typed("[501 characters of prose]", 501, TRUE, "[501 characters of prose]")}

SessionProblemTexts ==
    {t \in ProblemTexts : t.text = "" \/ t.sanitized # ""}

AudienceTexts ==
    {Typed("", 0, FALSE, ""),
     Typed("SMBs", 4, TRUE, "SMBs"),
     Typed("[201 characters of prose]", 201, TRUE, "[201 characters of prose]"),
     Typed("Small e-commerce businesses", 27, TRUE, AudienceA)}

\* input_stage: the form submitted with one of the given descriptions.  The
\* typed values are validated, the sanitized values are stored; on failure
\* the problem description's error is shown, or else the audience's.
SubmitForm(problems) ==
    /\ validation_stage = "input"
    /\ \E problem \in problems, audience \in AudienceTexts :
        LET problem_result == validate_problem_description(problem)
            audience_result == validate_target_audience(audience)
            problem_valid == problem_result.valid
            audience_valid == audience_result.valid
        IN  IF problem_valid /\ audience_valid
            THEN /\ problem_description' = sanitize_input(problem)
                 /\ target_audience' = sanitize_input(audience)
                 /\ session_keys' = session_keys \cup {"industry", "urgency"}
                 /\ validation_stage' = "pain_research"
                 /\ call' = [op |-> "submit", valid |-> TRUE, problem |-> problem,
                             audience |-> audience, error |-> ""]
                 /\ UNCHANGED <<results, api_costs, use_deep_analysis>>
            ELSE /\ call' = [op |-> "submit", valid |-> FALSE, problem |-> problem,
                             audience |-> audience,
                             error |-> IF ~problem_valid
                                       THEN "Problem description: "
                                            \o problem_result.error
                                       ELSE "Target audience: "
                                            \o audience_result.error]
                 /\ UNCHANGED session_vars

(***************************************************************************)
(* app.py: navigation.  The stages a button of the current page leads to.  *)
(***************************************************************************)
StageSet == {StageKeys[i] : i \in 1..Len(StageKeys)}

\* display_progress: stages that have data
completed_stages(res, problem) ==
    (IF problem # "" THEN {"input"} ELSE {})
    \cup {k \in {"pain_research", "market_analysis", "content_generation"} : Has(res, k)}
    \cup (IF Has(res, "survey_analysis") \/ Has(res, "survey_questions")
          THEN {"survey"} ELSE {})

ProgressTargets(stage, res, problem) ==
    IF stage = "input" THEN {}
    ELSE completed_stages(res, problem) \ {stage}

StageButtonsMutant(stage, res, problem) ==
    CASE stage = "input" ->
            IF problem # ""
            THEN {"pain_research", "market_analysis", "content_generation",
                  "survey", "results"}
            ELSE {}
      [] stage = "pain_research" ->
            IF Get(Get(res, "pain_research", EmptyDict), "kill_decision", FALSE)
            THEN {"input", "results"}
            ELSE {"input", "market_analysis", "results"}
      [] stage = "market_analysis" ->
            {"pain_research", "content_generation", "survey", "results"}
      [] stage = "content_generation" ->
            {"pain_research", "market_analysis", "survey", "results"}
      [] stage = "survey" ->
            {"pain_research", "market_analysis", "content_generation", "results"}
      [] stage = "results" ->
            {"pain_research", "market_analysis", "content_generation", "survey"}

StageButtons(stage, res, problem) ==
    CASE stage = "input" ->
            IF problem # ""
            THEN {"pain_research", "market_analysis", "content_generation",
                  "survey", "results"}
            ELSE {}
      [] stage = "pain_research" -> {"input", "market_analysis", "results"}
      [] stage = "market_analysis" ->
            {"pain_research", "content_generation", "survey", "results"}
      [] stage = "content_generation" ->
            {"pain_research", "market_analysis", "survey", "results"}
      [] stage = "survey" ->
            {"pain_research", "market_analysis", "content_generation", "results"}
      [] stage = "results" ->
            {"pain_research", "market_analysis", "content_generation", "survey"}

NavTargets(stage, res, problem) ==
    ProgressTargets(stage, res, problem) \cup StageButtons(stage, res, problem)

(***************************************************************************)
(* Direct calls of the stage modules' operations, as the tests make them:  *)
(* each module object is constructed, called once and dropped.             *)
(***************************************************************************)
NoCall == [op |-> "none"]

CallEvaluateThresholds ==
    /\ call = NoCall
    /\ \E m \in ThresholdInputs :
        /\ call' = [op |-> "evaluate_thresholds", inp |-> m,
                    out |-> evaluate_thresholds(m)]
        /\ UNCHANGED session_vars

\* _evaluate_thresholds run twice on the same metrics, with one level's
\* minimums bound to "required" and then to "raised".
CallEvaluatePatched ==
    /\ call = NoCall
    /\ \E level \in {"easy", "medium", "difficult"}, m \in PatchedMetrics,
          required \in RequiredValues, raised \in RequiredValues :
        /\ call' = [op |-> "evaluate_thresholds_patched", level |-> level,
                    inp |-> m, required |-> required, raised |-> raised,
                    passed |-> LevelPassedWith(level, required, m),
                    passed_raised |-> LevelPassedWith(level, raised, m)]
        /\ UNCHANGED session_vars

CallRunResearch ==
    /\ call = NoCall
    /\ \E inp \in ResearchInputs :
        /\ call' = [op |-> "run_research", inp |-> inp,
                    out |-> run_research(ProblemA, inp)]
        /\ UNCHANGED session_vars

CallExtractPricing ==
    /\ call = NoCall
    /\ \E inp \in ExtractInputs :
        /\ LET after == CompetitorAfterExtract(inp.competitor)
           IN  call' = [op |-> "extract_pricing", inp |-> inp,
                        out |-> extract_pricing(inp.competitor, inp.reviews,
                                                inp.use_deep_analysis),
                        after |-> after,
                        again |-> extract_pricing(after, inp.reviews,
                                                  inp.use_deep_analysis)]
        /\ UNCHANGED session_vars

CallCountPaying ==
    /\ call = NoCall
    /\ \E cs \in CompetitorLists :
        /\ call' = [op |-> "count_paying_competitors", inp |-> cs,
                    out |-> count_paying_competitors(cs),
                    early |-> EarlyCredited(cs),
                    backstop |-> BackstopCredited(cs)]
        /\ UNCHANGED session_vars

\* _count_paying_competitors on a list of up to MaxGrown competitors and on
\* the list with one more competitor that has valid pricing.
CallCountPayingGrown ==
    /\ call = NoCall
    /\ \E cs \in SeqsUpTo({Acme, Vague, Premium}, MaxGrown), c \in {Acme, ProCRM} :
        /\ call' = [op |-> "count_paying_grown", inp |-> cs, added |-> c,
                    out |-> count_paying_competitors(cs),
                    out_grown |-> count_paying_competitors(Append(cs, c))]
        /\ UNCHANGED session_vars

CallRunAnalysis ==
    /\ call = NoCall
    /\ \E inp \in AnalysisInputs :
        /\ call' = [op |-> "run_analysis", inp |-> inp,
                    out |-> run_analysis(ProblemA, inp)]
        /\ UNCHANGED session_vars

CallRunGeneration ==
    /\ call = NoCall
    /\ \E inp \in GenerationInputs :
        /\ call' = [op |-> "run_generation", inp |-> inp,
                    out |-> run_generation(ProblemA, inp)]
        /\ UNCHANGED session_vars

CallAnalyzeResponses ==
    /\ call = NoCall
    /\ \E inp \in ResponsesInputs :
        /\ call' = [op |-> "analyze_responses", inp |-> inp,
                    out |-> analyze_responses(inp)]
        /\ UNCHANGED session_vars

\* the input form submitted in a fresh session with any typed description
CallSubmitInput ==
    /\ call = NoCall
    /\ SubmitForm(ProblemTexts)

StagesInit == SessionInit /\ call = NoCall

StagesNext ==
    \/ CallEvaluateThresholds
    \/ CallEvaluatePatched
    \/ CallExtractPricing
    \/ CallRunResearch
    \/ CallCountPaying
    \/ CallCountPayingGrown
    \/ CallRunAnalysis
    \/ CallRunGeneration
    \/ CallAnalyzeResponses
    \/ CallSubmitInput

SpecStages == StagesInit /\ [][StagesNext]_vars

(***************************************************************************)
(* The Streamlit session of app.py.  One action is one run of main(): a    *)
(* click ends its run at st.rerun(), a run without a click renders the     *)
(* current stage, which runs the stage's module and stores its result.     *)
(* call records what the run did: the button taken, or the module          *)
(* operation called and the arguments app.py passed to it.                 *)
(***************************************************************************)
SessionResearchInputs ==
    {[search |-> [kind |-> "ok", n_clean |-> 60, n_promo |-> 0], deep |-> FALSE,
      response |-> [kind |-> "ok", parse |-> "json", cost |-> 250,
                    analysis |-> [pain_score |-> 8, complaint_breakdown |-> BreakdownA,
                                  weighted_complaint_score |-> 110,
                                  quality_metrics |-> QualityHigh,
                                  themes |-> ThemesA]],
      cb |-> "ok"],
     [search |-> [kind |-> "ok", n_clean |-> 25, n_promo |-> 5], deep |-> TRUE,
      response |-> [kind |-> "ok", parse |-> "json",
                    analysis |-> [pain_score |-> 4, complaint_breakdown |-> BreakdownB,
                                  weighted_complaint_score |-> 38,
                                  quality_metrics |-> QualityLow]],
      cb |-> "ok"],
     [search |-> [kind |-> "raise", msg |-> "Serper API error", py |-> "3.11"],
      deep |-> FALSE, response |-> ClaudeRaise, cb |-> "ok"]}

SessionAnalysisInputs ==
    {[search |-> [kind |-> "ok", competitors |-> <<Acme, Acme, Acme>>],
      response |-> [kind |-> "ok", parse |-> "json", cost |-> 250,
                    analysis |-> [top_competitors |-> <<<<99>>, <<59>>, <<149>>>>,
                                  avg_pricing |-> [monthly_low |-> 30,
                                                   monthly_high |-> 150,
                                                   monthly_average |-> 75],
                                  opportunity_score |-> 6,
                                  gaps |-> GapsA]],
      cb |-> "ok"],
     [search |-> [kind |-> "raise", msg |-> "Serper API error"],
      response |-> ClaudeRaise, cb |-> "ok"]}

JsonFree(value) == [kind |-> "ok", parse |-> "json", value |-> value]

SessionGenerationInputs ==
    {[landing |-> Json(LandingPageA), social |-> JsonFree([LinkedIn |-> <<"Post 1">>]),
      evaluation |-> JsonFree([predicted_conversion |-> 300, messaging_score |-> 6]),
      cb |-> "ok", py |-> "3.11"],
     [landing |-> ClaudeRaise, social |-> ClaudeRaise, evaluation |-> ClaudeRaise,
      cb |-> "ok", py |-> "3.11"]}

SessionSurveyResponses ==
    {JsonFree(<<"What would you pay?", "What do you use today?">>), ClaudeRaise}

SessionResponsesResponses ==
    {Json([avg_wtp |-> 80, percent_over_50 |-> 45]), ClaudeRaise}

SummaryResponses == {Unparseable, ClaudeRaise}

SAMPLE_RESPONSES == 75

\* st.session_state.clear(): no key is left
ClearedKeysMutant(keys) == keys

ClearedKeys(keys) == {}

\* st.session_state.results[stage_key] = value
StoreResultMutant(res, stage_key, value) == stage_key :> value

StoreResult(res, stage_key, value) == Put(res, stage_key, value)

\* A ledger after a run added cost to a stage's entry and to the total
AddCostMutant(costs, entry, cost) ==
    [costs EXCEPT ![entry] = @ + cost]

AddCost(costs, entry, cost) ==
    [costs EXCEPT ![entry] = @ + cost, !["total"] = @ + cost]

WithinBudget(cost) == api_costs.total + cost <= MaxCost

\* input_stage: "Start Validation" submitted in a session
SubmitInput == SubmitForm(SessionProblemTexts)

\* a quick-navigation, progress-bar or page navigation button
Navigate ==
    \E target \in NavTargets(validation_stage, results, problem_description) :
        /\ validation_stage' = target
        /\ call' = [op |-> "navigate", from |-> validation_stage, to |-> target]
        /\ UNCHANGED <<results, problem_description, target_audience, api_costs,
                       use_deep_analysis, session_keys>>

\* st.session_state.clear() followed by init_session_state()
ClearAndInit(button) ==
    LET keys == ClearedKeys(session_keys)
    IN  /\ validation_stage' = IF "validation_stage" \in keys
                               THEN validation_stage ELSE "input"
        /\ results' = IF "results" \in keys THEN results ELSE EmptyDict
        /\ problem_description' = IF "problem_description" \in keys
                                  THEN problem_description ELSE ""
        /\ target_audience' = IF "target_audience" \in keys
                              THEN target_audience ELSE ""
        /\ api_costs' = IF "api_costs" \in keys THEN api_costs ELSE ZeroCosts
        /\ use_deep_analysis' = IF "use_deep_analysis" \in keys
                                THEN use_deep_analysis ELSE FALSE
        /\ session_keys' = keys \cup InitKeys
        /\ call' = [op |-> "restart", button |-> button, from |-> validation_stage,
                    cleared |-> session_keys]

\* display_header: "Start New Validation"
Restart == ClearAndInit("header_new_validation")

\* results_stage: "Start New Validation" below the summary; the summary
\* stored earlier in the same run is wiped by the clear
RestartFromResults ==
    /\ validation_stage = "results"
    /\ ClearAndInit("results_new_validation")

\* The session state the pipeline works on
Pipeline ==
    [validation_stage |-> validation_stage, results |-> results,
     problem_description |-> problem_description,
     target_audience |-> target_audience, api_costs |-> api_costs]

\* The updates a run passes to its progress callback: run_research sends
\* text messages and, for each search query, dicts with a status;
\* run_analysis sends text messages only.
ProgressUpdates(op) ==
    LET QueryUpdate(status) ==
            [current_query |-> 1, total_queries |-> 2,
             query |-> "inventory complaints", status |-> status]
    IN  IF op = "run_research"
        THEN <<"Searching for complaints across platforms...",
               QueryUpdate("searching"), QueryUpdate("completed"),
               QueryUpdate("no_results"), QueryUpdate("failed"),
               "Analyzing complaint patterns and urgency...",
               "Pain research completed!">>
        ELSE <<"Searching for existing solutions and competitors...",
               "Gathering market size and industry data...",
               "Analyzing competitor pricing and reviews...",
               "Performing comprehensive market analysis...",
               "Market analysis completed!">>

\* pain_research_stage.update_progress, market_analysis_stage.update_progress:
\* the update is written to the page's containers; the session state the
\* callback leaves is the one it found
update_progressMutant(pipeline, update_info) ==
    [pipeline EXCEPT !.api_costs = ZeroCosts]

update_progress(pipeline, update_info) == pipeline

\* The session state after the callback took every update of a run
RECURSIVE AfterProgress(_, _)
AfterProgress(pipeline, updates) ==
    IF updates = <<>> THEN pipeline
    ELSE AfterProgress(update_progress(pipeline, Head(updates)), Tail(updates))

\* pain_research_stage
RenderPainResearch ==
    /\ validation_stage = "pain_research"
    /\ \E inp \in SessionResearchInputs :
        LET out == run_research(problem_description, inp)
            after == AfterProgress(Pipeline, ProgressUpdates("run_research"))
        IN  /\ WithinBudget(out.cost)
            /\ use_deep_analysis' = inp.deep
            /\ session_keys' = session_keys \cup {"search_status", "use_deep_analysis"}
            /\ results' = StoreResult(after.results, "pain_research", out.results)
            /\ api_costs' = AddCost(after.api_costs, "pain_research", out.cost)
            /\ validation_stage' = after.validation_stage
            /\ problem_description' = after.problem_description
            /\ target_audience' = after.target_audience
            /\ call' = [op |-> "run_research", problem |-> problem_description,
                        after_progress |-> after]

\* market_analysis_stage and content_generation_stage: the pain points
PainPointsMutant(res) == <<>>

PainPoints(res) == Get(Get(res, "pain_research", EmptyDict), "themes", <<>>)

\* content_generation_stage: the market gaps
MarketGaps(res) == Get(Get(res, "market_analysis", EmptyDict), "gaps", <<>>)

\* market_analysis_stage
RenderMarketAnalysis ==
    /\ validation_stage = "market_analysis"
    /\ \E inp \in SessionAnalysisInputs :
        LET pain_points == PainPoints(results)
            out == run_analysis(problem_description, inp)
            after == AfterProgress(Pipeline, ProgressUpdates("run_analysis"))
        IN  /\ WithinBudget(out.cost)
            /\ results' = StoreResult(after.results, "market_analysis", out.results)
            /\ api_costs' = AddCost(after.api_costs, "market_analysis", out.cost)
            /\ validation_stage' = after.validation_stage
            /\ problem_description' = after.problem_description
            /\ target_audience' = after.target_audience
            /\ call' = [op |-> "run_analysis", problem |-> problem_description,
                        pain_points |-> pain_points,
                        use_deep_analysis |-> use_deep_analysis,
                        after_progress |-> after]
            /\ UNCHANGED <<use_deep_analysis, session_keys>>

\* content_generation_stage
RenderContentGeneration ==
    /\ validation_stage = "content_generation"
    /\ \E inp \in SessionGenerationInputs :
        LET pain_points == PainPoints(results)
            market_gaps == MarketGaps(results)
            out == run_generation(problem_description, inp)
        IN  /\ WithinBudget(out.cost)
            /\ results' = StoreResult(results, "content_generation", out.results)
            /\ api_costs' = AddCost(api_costs, "content_generation", out.cost)
            /\ call' = [op |-> "run_generation", problem |-> problem_description,
                        pain_points |-> pain_points, market_gaps |-> market_gaps]
            /\ UNCHANGED <<validation_stage, problem_description, target_audience,
                           use_deep_analysis, session_keys>>

\* survey_stage: the solution teaser both tabs use
SolutionTeaser(res) ==
    Get(Get(Get(res, "content_generation", EmptyDict), "landing_page", EmptyDict),
        "headline", "Our solution")

\* survey_stage without a click: the survey is generated and stored
RenderSurvey ==
    /\ validation_stage = "survey"
    /\ \E response \in SessionSurveyResponses :
        LET solution_teaser == SolutionTeaser(results)
            out == generate_survey(solution_teaser, response)
        IN  /\ WithinBudget(out.cost)
            /\ results' = StoreResult(results, "survey_questions", out.results)
            /\ api_costs' = AddCost(api_costs, "survey_analysis", out.cost)
            /\ call' = [op |-> "generate_survey", problem |-> problem_description,
                        solution_teaser |-> solution_teaser]
            /\ UNCHANGED <<validation_stage, problem_description, target_audience,
                           use_deep_analysis, session_keys>>

\* survey_stage, "Simulate Survey Responses & Analyze": the survey is
\* generated again, then the sample responses are analyzed
AnalyzeSurvey ==
    /\ validation_stage = "survey"
    /\ \E response \in SessionSurveyResponses, analysis \in SessionResponsesResponses :
        LET solution_teaser == SolutionTeaser(results)
            survey == generate_survey(solution_teaser, response)
            out == analyze_responses([n_responses |-> SAMPLE_RESPONSES,
                                      response |-> analysis, cb |-> "none"])
        IN  /\ WithinBudget(survey.cost + out.cost)
            /\ results' = StoreResult(StoreResult(results, "survey_questions",
                                                      survey.results),
                                          "survey_analysis", out.results)
            /\ api_costs' = AddCost(api_costs, "survey_analysis",
                                    survey.cost + out.cost)
            /\ call' = [op |-> "analyze_responses",
                        solution_teaser |-> solution_teaser]
            /\ UNCHANGED <<validation_stage, problem_description, target_audience,
                           use_deep_analysis, session_keys>>

\* results_stage: which stage the summary reports as the early kill
EarlyKillMutant(res) ==
    LET pain == Get(res, "pain_research", EmptyDict)
        market == Get(res, "market_analysis", EmptyDict)
    IN  IF Get(market, "kill_decision", FALSE)
        THEN [early_kill |-> TRUE, kill_stage |-> "Market Analysis",
              kill_reason |-> Get(market, "kill_reason",
                                  "Insufficient market opportunity")]
        ELSE IF Get(pain, "kill_decision", FALSE)
        THEN [early_kill |-> TRUE, kill_stage |-> "Pain Research",
              kill_reason |-> Get(pain, "kill_reason", "Insufficient pain validation")]
        ELSE [early_kill |-> FALSE, kill_stage |-> "", kill_reason |-> ""]

EarlyKill(res) ==
    LET pain == Get(res, "pain_research", EmptyDict)
        market == Get(res, "market_analysis", EmptyDict)
    IN  IF Get(pain, "kill_decision", FALSE)
        THEN [early_kill |-> TRUE, kill_stage |-> "Pain Research",
              kill_reason |-> Get(pain, "kill_reason", "Insufficient pain validation")]
        ELSE IF Get(market, "kill_decision", FALSE)
        THEN [early_kill |-> TRUE, kill_stage |-> "Market Analysis",
              kill_reason |-> Get(market, "kill_reason",
                                  "Insufficient market opportunity")]
        ELSE [early_kill |-> FALSE, kill_stage |-> "", kill_reason |-> ""]

\* results_stage without a click: the summary is generated; its cost goes
\* to the total only
RenderResults ==
    /\ validation_stage = "results"
    /\ \E response \in SummaryResponses :
        LET cost == IF response.kind = "ok" THEN Get(response, "cost", 0) ELSE 0
        IN  /\ WithinBudget(cost)
            /\ api_costs' = [api_costs EXCEPT !["total"] = @ + cost]
            /\ call' = [op |-> "summary"] @@ EarlyKill(results)
            /\ UNCHANGED <<validation_stage, results, problem_description,
                           target_audience, use_deep_analysis, session_keys>>

Init == SessionInit /\ call = NoCall

Next ==
    \/ SubmitInput
    \/ Navigate
    \/ Restart
    \/ RestartFromResults
    \/ RenderPainResearch
    \/ RenderMarketAnalysis
    \/ RenderContentGeneration
    \/ RenderSurvey
    \/ AnalyzeSurvey
    \/ RenderResults

Spec == Init /\ [][Next]_vars

(***************************************************************************)
(* Claims                                                                  *)
(***************************************************************************)

(* C1: the threshold evaluation marks a level passed exactly when all the  *)
(* gates of that level hold: easy = weighted score and pain score reach    *)
(* the level's minimums; medium = the same with medium's minimums and a    *)
(* quality rating of medium or high; difficult = the same with difficult's *)
(* minimums, quality rating high, and urgency and emotional percentages    *)
(* reaching their minimums.  Each level is decided by its own gates only.  *)
C1_LevelPassedIffGates ==
    call.op = "evaluate_thresholds" =>
        LET w  == Get(call.inp, "weighted_complaint_score", 0)
            p  == Get(call.inp, "pain_score", 0)
            qm == Get(call.inp, "quality_metrics", EmptyDict)
            q  == Get(qm, "quality_rating", "low")
            u  == Get(qm, "urgency_percentage", 0)
            e  == Get(qm, "emotional_intensity_percentage", 0)
            ez == call.out.easy
            md == call.out.medium
            df == call.out.difficult
        IN  /\ DOMAIN call.out = {"easy", "medium", "difficult"}
            /\ ez.passed <=> /\ w >= ez.criteria.complaints_required
                             /\ p >= ez.criteria.pain_score_required
            /\ md.passed <=> /\ w >= md.criteria.complaints_required
                             /\ p >= md.criteria.pain_score_required
                             /\ q \in {"medium", "high"}
            /\ df.passed <=> /\ w >= df.criteria.complaints_required
                             /\ p >= df.criteria.pain_score_required
                             /\ q = "high"
                             /\ u >= df.criteria.urgency_required
                             /\ e >= df.criteria.emotional_required
            /\ ez.criteria.complaints_required = EASY_COMPLAINTS_REQUIRED
            /\ ez.criteria.pain_score_required = EASY_PAIN_SCORE
            /\ md.criteria.complaints_required = MEDIUM_COMPLAINTS_REQUIRED
            /\ md.criteria.pain_score_required = MEDIUM_PAIN_SCORE
            /\ df.criteria.complaints_required = DIFFICULT_COMPLAINTS_REQUIRED
            /\ df.criteria.pain_score_required = DIFFICULT_PAIN_SCORE

(* C1 witness: Scenario A's metrics (weighted 110, pain 8, quality high)   *)
(* with urgency below the difficult minimum: easy and medium pass while    *)
(* difficult fails.                                                        *)
C1_Witness ==
    /\ call.op = "evaluate_thresholds"
    /\ Get(call.inp, "weighted_complaint_score", 0) = 110
    /\ Get(call.inp, "pain_score", 0) = 8
    /\ Get(Get(call.inp, "quality_metrics", EmptyDict), "quality_rating", "low") = "high"
    /\ call.out.easy.passed
    /\ call.out.medium.passed
    /\ ~call.out.difficult.passed

(* C2: when run_research completes its steps without an exception, the    *)
(* kill decision is the negation of the medium level's passed flag and the *)
(* kill reason is the medium level's reason if medium failed, else "".     *)
C2_KillFollowsMedium ==
    (call.op = "run_research" /\ ~Has(call.out.results, "error")) =>
        LET r == call.out.results
            medium_result == r.threshold_evaluations.medium
        IN  /\ r.kill_decision = ~medium_result.passed
            /\ r.kill_reason = IF medium_result.passed THEN "" ELSE medium_result.reason

(* C2 witness: a completed run in which easy passed and medium failed, so  *)
(* the verdict is a kill carrying medium's reason.                         *)
C2_Witness ==
    /\ call.op = "run_research"
    /\ ~Has(call.out.results, "error")
    /\ call.out.results.threshold_evaluations.easy.passed
    /\ ~call.out.results.threshold_evaluations.medium.passed
    /\ call.out.results.kill_decision
    /\ call.out.results.kill_reason = "Weighted complaints: 38/40 | Quality: low (need medium+)"

(* Shorthands for a finished run_analysis call: the run reached its end    *)
(* without an exception, and the counts its inputs give.                   *)
AnalysisCompleted == call.op = "run_analysis" /\ ~Has(call.out.results, "error")

EnrichedOf(inp) ==
    IF inp.search.kind = "raise" THEN <<>> ELSE inp.search.competitors

OnlyReason(n) ==
    "Only " \o ToString(n) \o " competitors charging $50+/month found"

(* C3 as stated: whenever count_paying returns N < 3 for the enriched      *)
(* competitors, the market-analysis stage is killed with the reason         *)
(* "Only N competitors charging $50+/month found" for that same N.          *)
C3_CountFeedsGateDirectly ==
    AnalysisCompleted =>
        LET N == count_paying_competitors(EnrichedOf(call.inp))
        IN  N < 3 => /\ call.out.results.kill_decision
                     /\ call.out.results.kill_reason = OnlyReason(N)

(* C3 amended: the gate uses M, the larger of the count_paying result and  *)
(* the count derived from the text-generation analysis; when run_analysis  *)
(* completes without an exception and M < 3 the stage is killed with the   *)
(* reason "Only M competitors charging $50+/month found", and when M >= 3  *)
(* this gate does not fire even if count_paying returned less than 3.      *)
C3_LargerCountFeedsGate ==
    AnalysisCompleted =>
        LET enriched == EnrichedOf(call.inp)
            N == count_paying_competitors(enriched)
            A == claude_count(analyze_market(call.inp.response).analysis, Len(enriched))
            M == IF N >= A THEN N ELSE A
        IN  IF M < 3
            THEN /\ call.out.results.kill_decision
                 /\ call.out.results.kill_reason = OnlyReason(M)
            ELSE \A n \in 0..2 : call.out.results.kill_reason # OnlyReason(n)

(* C3 witness: count_paying gives 2, the analysis lists one competitor at  *)
(* $50 or more, and the stage is killed for "Only 2".                     *)
C3_Witness ==
    /\ AnalysisCompleted
    /\ count_paying_competitors(EnrichedOf(call.inp)) = 2
    /\ claude_count(analyze_market(call.inp.response).analysis,
                    Len(EnrichedOf(call.inp))) = 1
    /\ call.out.results.kill_decision
    /\ call.out.results.kill_reason = OnlyReason(2)

(* C4: when run_analysis reaches its verdict, the verdict is a first-match *)
(* cascade in the order (1) paying-competitor count < 3, (2) average       *)
(* monthly price < min price, (3) opportunity score < 6: the reason is     *)
(* that of the first true predicate even when later ones are true too, and *)
(* when none is true kill_decision is false and the reason is empty.       *)
C4_FirstMatchCascade ==
    AnalysisCompleted =>
        LET r == call.out.results
            enriched == EnrichedOf(call.inp)
            count == PayingCompetitors(analyze_market(call.inp.response).analysis,
                                       enriched)
            avg == r.avg_pricing.monthly_average
            opp == r.opportunity_score
        IN  IF count < 3
            THEN r.kill_decision /\ r.kill_reason = OnlyReason(count)
            ELSE IF avg < 50
            THEN /\ r.kill_decision
                 /\ r.kill_reason = "Average market pricing $" \o ToString(avg)
                                        \o " is below $50 threshold"
            ELSE IF opp < 6
            THEN /\ r.kill_decision
                 /\ r.kill_reason = "Low market opportunity score: "
                                        \o ToString(opp) \o "/10"
            ELSE ~r.kill_decision /\ r.kill_reason = ""

(* C4 witness: three paying competitors, an average price of $30 and an    *)
(* opportunity score of 5: predicates (2) and (3) are both true and the    *)
(* reason reported is the average-price one.                               *)
C4_Witness ==
    /\ AnalysisCompleted
    /\ count_paying_competitors(EnrichedOf(call.inp)) >= 3
    /\ call.out.results.opportunity_score = 5
    /\ call.out.results.avg_pricing.monthly_average = 30
    /\ call.out.results.kill_decision
    /\ call.out.results.kill_reason = "Average market pricing $30 is below $50 threshold"

(* The collaborator call that raised in a direct call of a stage operation *)
(* whose progress callback does not raise: the message of the first        *)
(* raising collaborator the run reaches, "" when none raises.              *)
RaisedMessage ==
    IF ~Has(call, "inp") \/ ~Has(call.inp, "cb") \/ call.inp.cb \notin {"none", "ok"}
    THEN ""
    ELSE CASE call.op \in {"run_research", "run_analysis"} ->
                IF call.inp.search.kind = "raise" THEN call.inp.search.msg
                ELSE IF call.inp.response.kind = "raise" THEN call.inp.response.msg
                ELSE ""
           [] call.op = "run_generation" ->
                IF call.inp.landing.kind = "raise" THEN call.inp.landing.msg
                ELSE IF call.inp.social.kind = "raise" THEN call.inp.social.msg
                ELSE IF call.inp.evaluation.kind = "raise" THEN call.inp.evaluation.msg
                ELSE ""
           [] call.op = "analyze_responses" ->
                IF call.inp.n_responses > 0 /\ call.inp.response.kind = "raise"
                THEN call.inp.response.msg ELSE ""
           [] OTHER -> ""

StageWords == {"research", "pain research", "analysis", "market analysis",
               "content generation", "survey analysis", "survey"}

(* C5 as stated: whenever a search or text-generation collaborator raises  *)
(* during a stage, the returned result has kill_decision true and a        *)
(* kill_reason "Error during <stage>: <message>" carrying the              *)
(* collaborator's message.                                                 *)
C5_CollaboratorFailureSurfaced ==
    RaisedMessage # "" =>
        /\ call.out.results.kill_decision
        /\ \E w \in StageWords :
            call.out.results.kill_reason = "Error during " \o w \o ": " \o RaisedMessage

(* C6: every stage result stored in the session has a boolean              *)
(* kill_decision and a string kill_reason, whatever the collaborators of   *)
(* that run returned or raised, and the session is never stuck: the        *)
(* current stage is one of the six pages and, off the input page, at least *)
(* one navigation button leads to another stage.                           *)
C6_StageResultAlwaysFormed ==
    /\ \A k \in DOMAIN results \cap
               {"pain_research", "market_analysis", "content_generation",
                "survey_analysis"} :
        /\ Has(results[k], "kill_decision")
        /\ results[k].kill_decision \in BOOLEAN
        /\ Has(results[k], "kill_reason")
        /\ results[k].kill_reason \in STRING
    /\ validation_stage \in StageSet
    /\ validation_stage # "input" =>
        NavTargets(validation_stage, results, problem_description) # {}

(* C6 witness: all four stage runs met a raising collaborator, each left a *)
(* result with an error entry, and the user has moved on to the summary.   *)
C6_Witness ==
    /\ validation_stage = "results"
    /\ \A k \in {"pain_research", "content_generation", "survey_analysis"} :
        /\ Has(results, k)
        /\ Has(results[k], "error")
        /\ results[k].kill_decision
    /\ Has(results, "market_analysis")
    /\ results.market_analysis.gaps = <<"Error: Claude API error: overloaded">>

\* results with the verdicts of the stage results named in flipped inverted
WithKillsFlipped(res, flipped) ==
    [k \in DOMAIN res |->
        IF k \in flipped /\ Has(res[k], "kill_decision")
        THEN [res[k] EXCEPT !["kill_decision"] = ~@]
        ELSE res[k]]

NextStage(stage) ==
    CASE stage = "pain_research" -> "market_analysis"
      [] stage = "market_analysis" -> "content_generation"
      [] stage = "content_generation" -> "survey"
      [] stage = "survey" -> "results"

(* C7: a kill verdict never blocks navigation: in every reachable session  *)
(* state the stages the user can move to are the same whichever stored     *)
(* results carry kill_decision true or false, and from pain_research,      *)
(* market_analysis, content_generation and survey the next stage in the    *)
(* pipeline order is among them.                                           *)
C7_KillNeverBlocksNavigation ==
    /\ \A flipped \in SUBSET (DOMAIN results) :
        NavTargets(validation_stage, WithKillsFlipped(results, flipped),
                   problem_description)
            = NavTargets(validation_stage, results, problem_description)
    /\ validation_stage \in {"pain_research", "market_analysis",
                             "content_generation", "survey"} =>
        NextStage(validation_stage)
            \in NavTargets(validation_stage, results, problem_description)

(* C7 witness: pain research ended in a genuine kill and the user has just *)
(* moved from it to market analysis.                                       *)
C7_Witness ==
    /\ call.op = "navigate"
    /\ call.from = "pain_research"
    /\ call.to = "market_analysis"
    /\ validation_stage = "market_analysis"
    /\ Has(results, "pain_research")
    /\ results.pain_research.kill_decision
    /\ ~Has(results.pain_research, "error")

(* C8: right after the restart action the session equals a freshly created *)
(* one: stage input, no stage results, empty problem description and       *)
(* target audience, every cost-ledger entry zero, and no session key       *)
(* beyond the initial ones.                                                *)
C8_RestartGivesFreshSession ==
    call.op = "restart" =>
        /\ validation_stage = "input"
        /\ results = EmptyDict
        /\ problem_description = ""
        /\ target_audience = ""
        /\ \A entry \in DOMAIN api_costs : api_costs[entry] = 0
        /\ DOMAIN api_costs = {"pain_research", "market_analysis",
                               "content_generation", "survey_analysis", "total"}
        /\ use_deep_analysis = FALSE
        /\ session_keys = InitKeys

(* C8 witness: a restart taken on the summary page of a session that had   *)
(* submitted an idea and run pain research with deep analysis switched on. *)
C8_Witness ==
    /\ call.op = "restart"
    /\ call.from = "results"
    /\ {"industry", "use_deep_analysis", "search_status"} \subseteq call.cleared
    /\ validation_stage = "input"
    /\ results = EmptyDict
    /\ api_costs.total = 0

\* the stored value under a path of keys, or the default when a key is absent
Stored(path, default) ==
    IF ~Has(results, path[1]) THEN default
    ELSE IF ~Has(results[path[1]], path[2]) THEN default
    ELSE IF Len(path) = 2 THEN results[path[1]][path[2]]
    ELSE IF ~Has(results[path[1]][path[2]], path[3]) THEN default
    ELSE results[path[1]][path[2]][path[3]]

(* C9: a stage run receives its upstream inputs from the results stored at *)
(* that moment: market analysis the stored pain-research themes, content   *)
(* generation those themes and the stored market-analysis gaps, survey     *)
(* generation the stored landing-page headline, with an empty list or      *)
(* "Our solution" when the stored result or the key is absent.             *)
C9_UpstreamInputsFromStoredResults ==
    /\ call.op = "run_analysis" =>
        call.pain_points = Stored(<<"pain_research", "themes">>, <<>>)
    /\ call.op = "run_generation" =>
        /\ call.pain_points = Stored(<<"pain_research", "themes">>, <<>>)
        /\ call.market_gaps = Stored(<<"market_analysis", "gaps">>, <<>>)
    /\ call.op \in {"generate_survey", "analyze_responses"} =>
        call.solution_teaser
            = Stored(<<"content_generation", "landing_page", "headline">>,
                     "Our solution")

(* C9 witness: content generation run with the themes of a stored          *)
(* pain-research result and the gaps of a stored market-analysis result.   *)
C9_Witness ==
    /\ call.op = "run_generation"
    /\ call.pain_points = ThemesA
    /\ call.market_gaps = GapsA
    /\ results.pain_research.themes = ThemesA
    /\ results.market_analysis.gaps = GapsA

(* C10: the weighted score the threshold evaluation uses equals            *)
(* 3*tier3 + 2*tier2 + 1*tier1 of the result's own evidence breakdown.     *)
C10_WeightedScoreFromBreakdown ==
    (call.op = "run_research"
        /\ Has(call.out.results.threshold_evaluations, "medium")) =>
        LET r == call.out.results
            b == r.complaint_breakdown
            used == r.threshold_evaluations.medium.criteria.actual_complaints
        IN  used = 3 * Get(b, "tier_3_high_impact", 0)
                   + 2 * Get(b, "tier_2_moderate", 0)
                   + Get(b, "tier_1_low_value", 0)


\* The entries of the gates that failed, in the order given, joined as the
\* reason string; a gate is a pair <<failed, entry>>.
RECURSIVE FailedEntries(_)
FailedEntries(gates) ==
    IF gates = <<>> THEN <<>>
    ELSE (IF Head(gates)[1] THEN <<Head(gates)[2]>> ELSE <<>>)
         \o FailedEntries(Tail(gates))

Against(label, actual, required, unit) ==
    label \o ": " \o ToString(actual) \o unit \o "/" \o ToString(required) \o unit

\* The gates of a level with their entries, over the metrics of the call.
EasyGates(w, p) ==
    << <<w < 20, Against("Weighted complaints", w, 20, "")>>,
       <<p < 5, Against("Pain score", p, 5, "")>> >>

MediumGates(w, p, q) ==
    << <<w < 40, Against("Weighted complaints", w, 40, "")>>,
       <<p < 6, Against("Pain score", p, 6, "")>>,
       <<q \notin {"medium", "high"}, "Quality: " \o q \o " (need medium+)">> >>

DifficultNumericGates(w, p) ==
    << <<w < 60, Against("Weighted complaints", w, 60, "")>>,
       <<p < 8, Against("Pain score", p, 8, "")>> >>

DifficultPercentGates(u, e) ==
    << <<u < 40, Against("Urgency", u, 40, "%")>>,
       <<e < 30, Against("Emotional", e, 30, "%")>> >>

DifficultQualityGate(q) ==
    << <<q # "high", "Quality: " \o q \o " (need high)">> >>

\* Every failed level of the call's output has the failed entries of its
\* gates as its reason, the difficult level's gates being given.
ReasonsListFailedGates(difficult_gates) ==
    LET w  == Get(call.inp, "weighted_complaint_score", 0)
        p  == Get(call.inp, "pain_score", 0)
        q  == Get(Get(call.inp, "quality_metrics", EmptyDict), "quality_rating", "low")
        ez == call.out.easy
        md == call.out.medium
        df == call.out.difficult
    IN  /\ ~ez.passed => ez.reason = Join(FailedEntries(EasyGates(w, p)), " | ")
        /\ ~md.passed => md.reason = Join(FailedEntries(MediumGates(w, p, q)), " | ")
        /\ ~df.passed => df.reason = Join(FailedEntries(difficult_gates), " | ")

(* C11, as stated: when a level fails, its reason holds exactly one entry  *)
(* per failed gate and none for a gate that holds, each entry giving the   *)
(* actual value against the required one, and for all three levels the     *)
(* entries come in the order complaints, pain score, quality, urgency,     *)
(* emotional.                                                              *)
C11_QualityBeforeUrgency ==
    call.op = "evaluate_thresholds" =>
        LET w  == Get(call.inp, "weighted_complaint_score", 0)
            p  == Get(call.inp, "pain_score", 0)
            qm == Get(call.inp, "quality_metrics", EmptyDict)
        IN  ReasonsListFailedGates(
                DifficultNumericGates(w, p)
                \o DifficultQualityGate(Get(qm, "quality_rating", "low"))
                \o DifficultPercentGates(Get(qm, "urgency_percentage", 0),
                                         Get(qm, "emotional_intensity_percentage", 0)))

(* C11, amended: when a level fails, its reason holds exactly one entry    *)
(* per failed gate and none for a gate that holds, each entry giving the   *)
(* actual value against the required one.  The easy and the medium level   *)
(* order their entries complaints, pain score, quality; the difficult      *)
(* level orders them complaints, pain score, urgency, emotional, quality.  *)
C11_ReasonListsFailedGates ==
    call.op = "evaluate_thresholds" =>
        LET w  == Get(call.inp, "weighted_complaint_score", 0)
            p  == Get(call.inp, "pain_score", 0)
            qm == Get(call.inp, "quality_metrics", EmptyDict)
        IN  ReasonsListFailedGates(
                DifficultNumericGates(w, p)
                \o DifficultPercentGates(Get(qm, "urgency_percentage", 0),
                                         Get(qm, "emotional_intensity_percentage", 0))
                \o DifficultQualityGate(Get(qm, "quality_rating", "low")))

(* C11 witness: Scenario B (weighted 38, pain 4, quality low): the medium  *)
(* level fails citing "38/40", and the difficult level fails on all five   *)
(* gates with its quality entry last.                                      *)
C11_Witness ==
    /\ call.op = "evaluate_thresholds"
    /\ call.out.medium.reason
         = "Weighted complaints: 38/40 | Pain score: 4/6 | Quality: low (need medium+)"
    /\ call.out.difficult.reason
         = "Weighted complaints: 38/60 | Pain score: 4/8 | Urgency: 39%/40%"
           \o " | Emotional: 29%/30% | Quality: low (need high)"

(* C12: for each level and fixed metrics, raising the level's              *)
(* complaints_required or pain_score_required never turns a failing        *)
(* evaluation into a passing one: a level that fails with minimums (c, p)  *)
(* also fails with any (c', p') where c' >= c and p' >= p.                 *)
C12_RaisingMinimumsKeepsFailure ==
    (/\ call.op = "evaluate_thresholds_patched"
     /\ call.raised.complaints_required >= call.required.complaints_required
     /\ call.raised.pain_score_required >= call.required.pain_score_required
     /\ ~call.passed)
    => ~call.passed_raised

(* C12 witness: the medium level fails on weighted complaints 39 against   *)
(* 40 with pain score and quality in order, and is evaluated again with    *)
(* both minimums raised.                                                   *)
C12_Witness ==
    /\ call.op = "evaluate_thresholds_patched"
    /\ call.level = "medium"
    /\ call.inp.weighted_complaint_score = 39
    /\ call.inp.pain_score = 8
    /\ call.inp.quality_metrics.quality_rating = "high"
    /\ call.required = [complaints_required |-> 40, pain_score_required |-> 6]
    /\ call.raised = [complaints_required |-> 60, pain_score_required |-> 8]
    /\ ~call.passed
    /\ ~call.passed_raised

\* The text a call of the pricing extractor read.
ExtractedText ==
    AllText(call.inp.competitor, call.inp.reviews, call.inp.use_deep_analysis)

InBand(amounts) == SelectSeq(amounts, LAMBDA a : 5 <= a /\ a <= 10000)

(* C13: for every competitor text, review list and pricing_mentioned flag, *)
(* whenever the pricing extractor returns found = true its monthly price p *)
(* satisfies 5 <= p <= 10000, from the pattern cascade and from the        *)
(* bare-dollar fallback alike.                                             *)
C13_FoundPriceInBand ==
    (call.op = "extract_pricing" /\ call.out.found) =>
        /\ Len(call.out.monthly) = 1
        /\ 5 <= call.out.monthly[1]
        /\ call.out.monthly[1] <= 10000
        /\ call.out.model \in {"Subscription", "Subscription (estimated)"}

(* C13 witness: a flagged competitor whose text reads "$10001/mo" and then *)
(* "$10000/mo": the cascade passes over it, the fallback skips 10001 and   *)
(* returns 10000, the upper edge of the band.                              *)
C13_Witness ==
    /\ call.op = "extract_pricing"
    /\ ExtractedText = <<Mention(10001, "mo"), Mention(10000, "mo")>>
    /\ call.out.found
    /\ call.out.monthly = <<10000>>
    /\ call.out.model = "Subscription (estimated)"

\* The first in-band match of the first pattern rule that has one.
RECURSIVE FirstInBandMatch(_, _)
FirstInBandMatch(text, k) ==
    IF k > 14 THEN None
    ELSE LET in_band == InBand(PatternMatches(text, k))
         IN  IF in_band # <<>> THEN <<in_band[1]>>
             ELSE FirstInBandMatch(text, k + 1)

(* C14: the pricing extractor applies its pattern rules in their fixed     *)
(* order and returns the first match whose value lies in [5, 10000]: a     *)
(* match outside the band never prevents a later in-band match, of the     *)
(* same rule or of a later rule, from being returned with found = true.    *)
C14_OutOfBandMatchSkipped ==
    (call.op = "extract_pricing" /\ FirstInBandMatch(ExtractedText, 1) # None) =>
        /\ call.out.found
        /\ call.out.monthly = FirstInBandMatch(ExtractedText, 1)

\* No pattern rule yields a price: each rule has no match or an implausible
\* first match.
NoRuleYields ==
    \A k \in 1..14 :
        LET matches == PatternMatches(ExtractedText, k)
        IN  matches = <<>> \/ InBand(<<matches[1]>>) = <<>>

(* C15: when no pattern rule yields a price: if the competitor is flagged  *)
(* pricing_mentioned, the extractor scans the bare dollar amounts in text  *)
(* order and returns the first one in [5, 10000] with found = true and a   *)
(* model marked as estimated; if the competitor is not flagged, or no bare *)
(* amount is in the band, it returns found = false with no monthly price.  *)
C15_BareDollarFallback ==
    (call.op = "extract_pricing" /\ NoRuleYields) =>
        LET in_band == InBand(DollarAmounts(ExtractedText))
        IN  IF Get(call.inp.competitor, "pricing_mentioned", FALSE) /\ in_band # <<>>
            THEN /\ call.out.found
                 /\ call.out.monthly = <<in_band[1]>>
                 /\ call.out.model = "Subscription (estimated)"
            ELSE /\ ~call.out.found
                 /\ call.out.monthly = None
                 /\ call.out.model = "Unknown"

(* C15 witness: a flagged competitor whose text reads "$4" and then "$79", *)
(* no pattern rule matching: the fallback returns 79, marked estimated.    *)
C15_Witness ==
    /\ call.op = "extract_pricing"
    /\ NoRuleYields
    /\ Get(call.inp.competitor, "pricing_mentioned", FALSE)
    /\ ExtractedText = <<Mention(4, "bare"), Mention(79, "bare")>>
    /\ call.out = [found |-> TRUE, monthly |-> <<79>>, annual |-> None,
                   model |-> "Subscription (estimated)"]

\* The credit, in halves, the stated rule gives a competitor before the
\* backstop: 2 for an extracted price of at least min_price; for a
\* competitor with pricing mentioned and no extracted price, 2 if its text
\* holds a dollar amount of at least min_price, else 1 if it holds the word
\* "pricing".
StatedHalves(comp) ==
    LET pricing == Get(comp, "pricing", EmptyDict)
    IN  IF Get(pricing, "found", FALSE) /\ Get(pricing, "monthly", 0) # 0
        THEN IF pricing.monthly >= 50 THEN 2 ELSE 0
        ELSE IF Get(comp, "pricing_mentioned", FALSE)
        THEN IF \E k \in 1..Len(comp.price_matches) :
                    \E j \in 1..Len(comp.price_matches[k]) :
                        \E n \in 1..Len(comp.price_matches[k][j]) :
                            comp.price_matches[k][j][n] >= 50
             THEN 2
             ELSE IF "pricing" \in comp.words THEN 1 ELSE 0
        ELSE 0

RECURSIVE SumOver(_, _)
SumOver(competitors, halves) ==
    IF competitors = <<>> THEN 0
    ELSE halves[Head(competitors)] + SumOver(Tail(competitors), halves)

StatedCount(competitors) ==
    LET kinds    == {competitors[i] : i \in 1..Len(competitors)}
        early    == SumOver(competitors, [c \in kinds |-> StatedHalves(c)])
        backstop == SumOver(competitors,
                        [c \in kinds |-> IF StatedHalves(c) = 0
                                            /\ c.words \cap PaidSignals # {}
                                         THEN 1 ELSE 0])
    IN  (IF early < 6 THEN early + backstop ELSE early) \div 2

(* C16: count_paying returns floor(T), T being: +1 for each competitor     *)
(* with found = true and extracted price >= min_price; for each competitor *)
(* with pricing_mentioned and no extracted price, +1 if its text holds a   *)
(* dollar amount >= min_price, else +0.5 if it holds the word "pricing";   *)
(* then, only if the running total is below 3, +0.5 for each remaining     *)
(* competitor whose text carries a paid-product lexical signal.            *)
C16_CountIsFloorOfCredits ==
    call.op = "count_paying_competitors" => call.out = StatedCount(call.inp)

(* C17: the paying-competitor count never decreases when a competitor with *)
(* found = true and extracted price >= min_price is added to the list,     *)
(* including when the list holds half-credit and lexical-signal            *)
(* competitors and its running total is just below 3.                      *)
C17_AddingPricedNeverLowers ==
    call.op = "count_paying_grown" => call.out_grown >= call.out

(* C18: the lexical-signal backstop of count_paying credits only           *)
(* competitors that were not already counted: no competitor that received  *)
(* full or half credit from its extracted price or its pricing mention     *)
(* receives a further half credit from the backstop, whatever the          *)
(* competitors' names are.                                                 *)
C18_BackstopOnlyUncounted ==
    call.op = "count_paying_competitors" => call.backstop \cap call.early = {}

\* What the text-generation response of a run_research call supplied.
SuppliedAnalysis ==
    IF call.inp.response.kind = "ok" /\ Has(call.inp.response, "analysis")
    THEN call.inp.response.analysis ELSE EmptyDict

\* The number of evidence items handed to the analysis.
AnalyzedCount ==
    Min(IF call.inp.deep THEN 50 ELSE 30, call.out.results.complaints_found)

(* C19: on every path through the pain-research analysis (well-formed      *)
(* response, response lacking fields, unparseable response, collaborator   *)
(* error), a missing quality_rating is evaluated as "medium" and a missing *)
(* weighted_complaint_score is evaluated as the raw count of evidence      *)
(* items analysed.                                                         *)
C19_MissingFieldsDefaulted ==
    (call.op = "run_research"
     /\ call.out.results.threshold_evaluations # EmptyDict) =>
        LET medium == call.out.results.threshold_evaluations.medium
        IN  /\ ~Has(SuppliedAnalysis, "weighted_complaint_score")
                => medium.criteria.actual_complaints = AnalyzedCount
            /\ ~Has(Get(SuppliedAnalysis, "quality_metrics", EmptyDict), "quality_rating")
                => (medium.passed <=>
                        /\ medium.criteria.actual_complaints >= 40
                        /\ medium.criteria.actual_pain_score >= 6)

(* C20: the threshold evaluation has no error outcome: for every metrics   *)
(* dict of numbers and rating strings, including one where weighted score, *)
(* pain score, quality metrics, quality rating, urgency or emotional       *)
(* percentage are absent, it returns exactly the three evaluations easy,   *)
(* medium and difficult, an absent numeric metric counting as zero and an  *)
(* absent quality rating as "low".                                         *)
C20_AbsentMetricsAreLowest ==
    call.op = "evaluate_thresholds" =>
        LET qm == Get(call.inp, "quality_metrics", EmptyDict)
            df == call.out.difficult.criteria
        IN  /\ DOMAIN call.out = {"easy", "medium", "difficult"}
            /\ \A level \in DOMAIN call.out :
                /\ call.out[level].passed \in BOOLEAN
                /\ call.out[level].reason \in STRING
                /\ call.out[level].passed <=> call.out[level].reason = ""
            /\ ~Has(call.inp, "weighted_complaint_score") =>
                /\ \A level \in DOMAIN call.out :
                    /\ call.out[level].criteria.actual_complaints = 0
                    /\ ~call.out[level].passed
            /\ ~Has(call.inp, "pain_score") =>
                /\ \A level \in DOMAIN call.out :
                    /\ call.out[level].criteria.actual_pain_score = 0
                    /\ ~call.out[level].passed
            /\ ~Has(qm, "urgency_percentage") =>
                df.actual_urgency = 0 /\ ~call.out.difficult.passed
            /\ ~Has(qm, "emotional_intensity_percentage") =>
                df.actual_emotional = 0 /\ ~call.out.difficult.passed
            /\ ~Has(qm, "quality_rating") =>
                /\ ~call.out.medium.passed
                /\ ~call.out.difficult.passed
                /\ (Get(call.inp, "weighted_complaint_score", 0) >= 40
                    /\ Get(call.inp, "pain_score", 0) >= 6)
                   => call.out.medium.reason = "Quality: low (need medium+)"

(* C20 witness: the evaluation of an empty metrics dict: three failed      *)
(* levels, every numeric metric reported as 0 and the rating as low.       *)
C20_Witness ==
    /\ call.op = "evaluate_thresholds"
    /\ call.inp = EmptyDict
    /\ call.out.easy.reason = "Weighted complaints: 0/20 | Pain score: 0/5"
    /\ call.out.medium.reason
         = "Weighted complaints: 0/40 | Pain score: 0/6 | Quality: low (need medium+)"
    /\ call.out.difficult.reason
         = "Weighted complaints: 0/60 | Pain score: 0/8 | Urgency: 0%/40%"
           \o " | Emotional: 0%/30% | Quality: low (need high)"

\* The entries of the stage-results map the run recorded in call may write.
OwnEntries(op) ==
    CASE op = "run_research"      -> {"pain_research"}
      [] op = "run_analysis"      -> {"market_analysis"}
      [] op = "run_generation"    -> {"content_generation"}
      [] op = "generate_survey"   -> {"survey_questions"}
      [] op = "analyze_responses" -> {"survey_questions", "survey_analysis"}
      [] OTHER                    -> {}

(* C21: a stage result is written only by the stage that produced it:      *)
(* running or re-running a stage changes only that stage's own entry of    *)
(* the stage-results map (pain_research; market_analysis;                  *)
(* content_generation; survey_questions and survey_analysis for the survey *)
(* stage) and leaves every other stored result unchanged, and a navigation *)
(* action changes only the current stage.                                  *)
C21_StageWritesOwnResult ==
    [][/\ call'.op # "restart" =>
            /\ \A k \in DOMAIN results \ OwnEntries(call'.op) :
                    k \in DOMAIN results' /\ results'[k] = results[k]
            /\ DOMAIN results' \ DOMAIN results \subseteq OwnEntries(call'.op)
       /\ call'.op = "navigate" =>
            UNCHANGED <<results, problem_description, target_audience, api_costs,
                        use_deep_analysis, session_keys>>]_vars

(* C21 witness: pain research has just been re-run while results of the    *)
(* market analysis and of content generation are stored.                   *)
C21_Witness ==
    /\ call.op = "run_research"
    /\ {"pain_research", "market_analysis", "content_generation"} \subseteq DOMAIN results
    /\ results.pain_research.kill_decision
    /\ ~results.market_analysis.kill_decision

(* C22: the content-generation and survey-analysis verdicts are            *)
(* first-match cascades.  A run_generation that completes its steps kills  *)
(* with the conversion reason when predicted_conversion < 0.02, otherwise  *)
(* with the messaging reason when messaging_score < 6, otherwise returns   *)
(* kill_decision false with an empty reason.  An analyze_responses that    *)
(* completes on a non-empty, parseable analysis kills with the             *)
(* willingness-to-pay reason when avg_wtp < 50, otherwise with the         *)
(* percentage reason when percent_over_50 < 30, otherwise returns          *)
(* kill_decision false with an empty reason.                               *)
C22_ContentAndSurveyCascades ==
    /\ (call.op = "run_generation" /\ ~Has(call.out.results, "error")) =>
        LET r == call.out.results
        IN  IF r.predicted_conversion < 200
            THEN /\ r.kill_decision
                 /\ r.kill_reason = "Predicted conversion rate "
                        \o PercentOneDecimal(r.predicted_conversion)
                        \o "% is below 2.0% threshold"
            ELSE IF r.messaging_score < 6
            THEN /\ r.kill_decision
                 /\ r.kill_reason = "Messaging effectiveness score "
                        \o ToString(r.messaging_score) \o "/10 is too low"
            ELSE ~r.kill_decision /\ r.kill_reason = ""
    /\ (/\ call.op = "analyze_responses"
        /\ call.inp.n_responses > 0
        /\ call.inp.response.kind = "ok"
        /\ call.inp.response.parse = "json"
        /\ ~Has(call.out.results, "error")) =>
        LET r == call.out.results
        IN  IF r.avg_wtp < 50
            THEN /\ r.kill_decision
                 /\ r.kill_reason = "Average WTP $" \o ToString(r.avg_wtp)
                        \o " is below $50 threshold"
            ELSE IF r.percent_over_50 < 30
            THEN /\ r.kill_decision
                 /\ r.kill_reason = "Only " \o ToString(r.percent_over_50)
                        \o "% willing to pay $50+ (need 30%+)"
            ELSE ~r.kill_decision /\ r.kill_reason = ""

(* C22 witness: a completed run_generation whose evaluation predicts 1.0%  *)
(* conversion with a messaging score of 5: both gates fail and the verdict *)
(* carries the conversion reason, the first of the cascade.                *)
C22_Witness ==
    /\ call.op = "run_generation"
    /\ ~Has(call.out.results, "error")
    /\ call.out.results.predicted_conversion = 100
    /\ call.out.results.messaging_score = 5
    /\ call.out.results.kill_decision
    /\ call.out.results.kill_reason
         = "Predicted conversion rate 1.0% is below 2.0% threshold"

\* the validity the input form is documented to require
DescriptionIsValid(problem) ==
    /\ problem.text # ""
    /\ problem.stripped_len >= 10
    /\ problem.stripped_len <= 500
    /\ problem.has_word

AudienceIsValid(audience) ==
    /\ audience.text # ""
    /\ audience.stripped_len >= 5
    /\ audience.stripped_len <= 200

(* C23: submitting the input form of a fresh session moves the session     *)
(* from input to pain_research, storing the problem description and the    *)
(* target audience (the submitted texts, which are not empty), exactly     *)
(* when the description is non-empty, 10 to 500 characters after trimming  *)
(* and contains a run of 3 letters, and the audience is non-empty and 5 to *)
(* 200 characters after trimming; on any invalid input validation fails    *)
(* with an error message, the stage stays input and the stored description *)
(* and audience stay as they were (empty).                                 *)
C23_ValidSubmitStoresDescription ==
    call.op = "submit" =>
        LET ok == DescriptionIsValid(call.problem) /\ AudienceIsValid(call.audience)
        IN  /\ call.valid <=> ok
            /\ ok => /\ validation_stage = "pain_research"
                     /\ problem_description = call.problem.sanitized
                     /\ problem_description # ""
                     /\ target_audience = call.audience.sanitized
                     /\ target_audience # ""
            /\ ~ok => /\ validation_stage = "input"
                      /\ call.error # ""
                      /\ problem_description = ""
                      /\ target_audience = ""

StageEntries == {"pain_research", "market_analysis", "content_generation",
                 "survey_analysis"}

EntriesSum(costs) ==
    costs.pain_research + costs.market_analysis + costs.content_generation
    + costs.survey_analysis

\* no entry of the ledger decreases in a step other than a restart
EntriesNeverDecrease ==
    call'.op # "restart" =>
        \A entry \in StageEntries : api_costs'[entry] >= api_costs[entry]

(* C26 as stated: in every reachable session state the cost ledger's total *)
(* equals the sum of its four per-stage entries, and no entry ever         *)
(* decreases except by a restart.                                          *)
C26_TotalIsSumOfEntries ==
    /\ [](api_costs.total = EntriesSum(api_costs))
    /\ [][EntriesNeverDecrease]_vars

(* C26: in every reachable session state the cost ledger's total is at     *)
(* least the sum of its four per-stage entries; a stage run adds the same  *)
(* amount to its entry and to the total, a visit to the results summary    *)
(* adds the cost of generating the summary to the total and to no entry,   *)
(* and neither an entry nor the total ever decreases except by a restart.  *)
C26_TotalIsSumPlusSummaryCost ==
    /\ [](api_costs.total >= EntriesSum(api_costs))
    /\ [][/\ EntriesNeverDecrease
          /\ call'.op # "restart" => api_costs'.total >= api_costs.total
          /\ call'.op = "summary" => EntriesSum(api_costs') = EntriesSum(api_costs)
          /\ call'.op \notin {"summary", "restart"} =>
                api_costs'.total - api_costs.total
                    = EntriesSum(api_costs') - EntriesSum(api_costs)]_vars

(* C26 witness: after stage runs and a visit to the results summary the    *)
(* total exceeds the sum of the entries by the cost of one summary.        *)
C26_Witness ==
    /\ call.op = "summary"
    /\ api_costs.pain_research > 0
    /\ api_costs.market_analysis > 0
    /\ api_costs.total = EntriesSum(api_costs) + 250

(* C27: in every result returned by run_research, run_analysis,            *)
(* run_generation or analyze_responses the verdict and the reason agree:   *)
(* a result that carries an error entry has kill_decision true, and a      *)
(* result whose kill_decision is false has an empty kill_reason and no     *)
(* error entry, also when the failure happens after the verdict was        *)
(* computed.                                                               *)
C27_VerdictAndReasonAgree ==
    (/\ call.op \in {"run_research", "run_analysis", "run_generation",
                     "analyze_responses"}
     /\ Has(call.out, "results")) =>
        LET r == call.out.results
        IN  /\ Has(r, "error") => r.kill_decision
            /\ ~r.kill_decision => (r.kill_reason = "" /\ ~Has(r, "error"))

(* C28: in every threshold evaluation, for each of the three levels,       *)
(* passed is true exactly when the level's reason is empty: a passed level *)
(* has an empty reason, and a failed level has a non-empty reason and at   *)
(* least one criterion of the level is unmet.                              *)
C28_PassedIffReasonEmpty ==
    call.op = "evaluate_thresholds" =>
        LET w  == Get(call.inp, "weighted_complaint_score", 0)
            p  == Get(call.inp, "pain_score", 0)
            qm == Get(call.inp, "quality_metrics", EmptyDict)
            q  == Get(qm, "quality_rating", "low")
            gates == [easy |-> EasyGates(w, p),
                      medium |-> MediumGates(w, p, q),
                      difficult |->
                          DifficultNumericGates(w, p)
                          \o DifficultPercentGates(
                                 Get(qm, "urgency_percentage", 0),
                                 Get(qm, "emotional_intensity_percentage", 0))
                          \o DifficultQualityGate(q)]
        IN  \A level \in {"easy", "medium", "difficult"} :
                /\ call.out[level].passed <=> call.out[level].reason = ""
                /\ ~call.out[level].passed => FailedEntries(gates[level]) # <<>>

(* C28 witness: an evaluation in which easy passed with an empty reason,   *)
(* and medium failed on the pain score alone with a reason naming it.      *)
C28_Witness ==
    /\ call.op = "evaluate_thresholds"
    /\ call.out.easy.passed /\ call.out.easy.reason = ""
    /\ ~call.out.medium.passed
    /\ call.out.medium.reason = "Pain score: 5/6"
    /\ ~call.out.difficult.passed /\ call.out.difficult.reason # ""

\* the threshold constants as shipped in config/settings.py
ShippedThresholds ==
    /\ EASY_COMPLAINTS_REQUIRED = 20 /\ EASY_PAIN_SCORE = 5
    /\ MEDIUM_COMPLAINTS_REQUIRED = 40 /\ MEDIUM_PAIN_SCORE = 6
    /\ DIFFICULT_COMPLAINTS_REQUIRED = 60 /\ DIFFICULT_PAIN_SCORE = 8
    /\ DIFFICULT_URGENCY_THRESHOLD = 40 /\ DIFFICULT_EMOTIONAL_THRESHOLD = 30

(* C29: with the shipped threshold constants (easy 20 / 5, medium 40 / 6   *)
(* with quality medium or high, difficult 60 / 8 with quality high,        *)
(* urgency 40, emotional 30) the three levels are monotonic for every      *)
(* input: whenever difficult passes medium passes, and whenever medium     *)
(* passes easy passes.                                                     *)
C29_LevelsMonotonic ==
    (ShippedThresholds /\ call.op = "evaluate_thresholds") =>
        /\ call.out.difficult.passed => call.out.medium.passed
        /\ call.out.medium.passed => call.out.easy.passed

(* C29 witness: an evaluation of metrics that pass the difficult level     *)
(* (weighted 110, pain 8, quality high, urgency and emotional at their     *)
(* minimums or above): medium and easy pass with it.                       *)
C29_Witness ==
    /\ ShippedThresholds
    /\ call.op = "evaluate_thresholds"
    /\ Get(call.inp, "weighted_complaint_score", 0) = 110
    /\ Get(call.inp, "pain_score", 0) = 8
    /\ call.out.difficult.passed
    /\ call.out.medium.passed
    /\ call.out.easy.passed

\* a stage's stored result is a kill; a stage never run has none
StoredKill(stage_key) ==
    Has(results, stage_key) /\ Get(results[stage_key], "kill_decision", FALSE)

(* C30: the results summary selects the failing stage by first match over  *)
(* the stored results: it reports an early kill at Pain Research when the  *)
(* stored pain research result has kill_decision true, otherwise at Market *)
(* Analysis when the stored market analysis result has kill_decision true, *)
(* otherwise no early kill; a stage that was never run, and a kill in      *)
(* content generation or survey analysis, never produce an early kill.     *)
C30_EarlyKillFirstMatch ==
    call.op = "summary" =>
        IF StoredKill("pain_research")
        THEN /\ call.early_kill
             /\ call.kill_stage = "Pain Research"
             /\ call.kill_reason = results.pain_research.kill_reason
        ELSE IF StoredKill("market_analysis")
        THEN /\ call.early_kill
             /\ call.kill_stage = "Market Analysis"
             /\ call.kill_reason = results.market_analysis.kill_reason
        ELSE ~call.early_kill

(* C30 witness: a summary over stored results in which both the pain       *)
(* research and the market analysis were killed: the early kill is         *)
(* reported at Pain Research.                                              *)
C30_Witness ==
    /\ call.op = "summary"
    /\ StoredKill("pain_research")
    /\ StoredKill("market_analysis")
    /\ call.early_kill
    /\ call.kill_stage = "Pain Research"
====
